---- MODULE Spec2Model ----
(***************************************************************************)
(* Project-based manufacturing add-on: the project lifecycle state         *)
(* machine (project.definition) driven by the states of its pricings,      *)
(* material plannings, work-order executions and linked production orders. *)
(***************************************************************************)
EXTENDS Naturals, Integers, Sequences, FiniteSets, Bags, TLC

VARIABLES
  project,      \* the project.definition record; its field messages counts the
                \* audit-log messages the latest operation posted on it
  pricings,     \* bag of the project's project.product.pricing records
  plannings,    \* bag of the project's material.production.planning records
  executions,   \* bag of the project's work.order.execution records
  productions,  \* bag of mrp.production records
  wizards,      \* bag of work.order.creation.wizard records
  lastOp,       \* name of the operation that ran last
  outcome,      \* "returned" or "raised": how that operation ended
  stateBefore,  \* project.state when that operation started
  moves,        \* the state of each stock.move of the processed production
  workorders,   \* the mrp.workorder records of the processed production
  processWizard, \* the work.order.process.wizard record and its lines
  request,      \* the action_process_all request in flight, if any
  report,       \* what the latest action_process_all counted and returned
  before,       \* the records a request or import found when it started
  product_lines, \* the project's project.product.line records, in line order
  estimation,   \* the project.cost.estimation record
  importWizard, \* the project.estimation.import.wizard record
  user_permissions \* the user.screen.permission record of a user on each screen

vars ==
  <<project, pricings, plannings, executions, productions, wizards,
    lastOp, outcome, stateBefore,
    moves, workorders, processWizard, request, report, before,
    product_lines, estimation, importWizard, user_permissions>>

(* ------------------------------ bounds -------------------------------- *)

\* at most this many related records (pricings, plannings, executions,
\* production orders) exist at a time
MaxRecords == 3

(* ------------------------- selection fields --------------------------- *)

ProjectStates == {"draft", "pricing", "planning", "processing", "done", "cancelled"}

PricingStates == {"draft", "confirmed", "approved", "cancelled"}

PlanningStates ==
  {"draft", "components_loaded", "material_planned", "work_orders_created",
   "done", "cancelled"}

ExecutionStates == {"draft", "loaded", "in_progress", "done", "cancelled"}

ProductionStates == {"draft", "confirmed", "progress", "to_close", "done", "cancel"}

\* position of a stage in the lifecycle order; cancelled is outside the order
StageRank(s) ==
  CASE s = "draft" -> 0
    [] s = "pricing" -> 1
    [] s = "planning" -> 2
    [] s = "processing" -> 3
    [] s = "done" -> 4
    [] OTHER -> 5

Stages == {"draft", "pricing", "planning", "processing", "done"}

(* ------------------------------ names --------------------------------- *)

\* A name or an origin is a sequence of tokens; `like`/`ilike` is the
\* containment of the pattern as a contiguous run of tokens.
ProjectName == <<"PRJ1">>

RECURSIVE like(_, _)
like(pattern, text) ==
  IF Len(pattern) > Len(text) THEN FALSE
  ELSE IF SubSeq(text, 1, Len(pattern)) = pattern THEN TRUE
  ELSE like(pattern, Tail(text))

\* records are kept in bags: create adds one copy, write replaces one copy
BagAdd(B, r) == B (+) SetToBag({r})

BagRemove(B, r) == B (-) SetToBag({r})

BagReplace(B, r, r2) == BagAdd(BagRemove(B, r), r2)

NumRecords ==
  BagCardinality(pricings) + BagCardinality(plannings)
    + BagCardinality(executions) + BagCardinality(productions)

(* ------------------- project.definition: auto update ------------------ *)

\* self.write({'state': s}) followed by self.message_post(...)
write_and_post(p, s) == [p EXCEPT !.state = s, !.messages = @ + 1]

\* faulty variant: the pricing rule skips the pricing stage
_move_to_pricing_skipping(p) ==
  IF p.state = "draft" THEN write_and_post(p, "planning") ELSE p

_move_to_pricing(p) ==
  IF p.state = "draft" THEN write_and_post(p, "pricing") ELSE p

\* faulty variant: planning is reached from draft only
_move_to_planning_from_draft(p) ==
  IF p.state = "draft" THEN write_and_post(p, "planning") ELSE p

_move_to_planning(p) ==
  IF p.state \in {"draft", "pricing"} THEN write_and_post(p, "planning") ELSE p

\* faulty variant: the helper pasted from _move_to_pricing keeps the pasted target
_move_to_processing_pasted(p) ==
  IF p.state \in {"draft", "pricing", "planning"}
  THEN write_and_post(p, "pricing") ELSE p

\* faulty variant: writes and posts whatever the current state is
_move_to_processing_unguarded(p) == write_and_post(p, "processing")

\* faulty variant: processing is reached from planning only
_move_to_processing_from_planning(p) ==
  IF p.state = "planning" THEN write_and_post(p, "processing") ELSE p

\* faulty variant: processing is approached one stage at a time
_move_to_processing_stepwise(p) ==
  IF p.state = "draft" THEN write_and_post(p, "pricing")
  ELSE IF p.state = "pricing" THEN write_and_post(p, "planning")
  ELSE IF p.state = "planning" THEN write_and_post(p, "processing")
  ELSE p

_move_to_processing(p) ==
  IF p.state \in {"draft", "pricing", "planning"}
  THEN write_and_post(p, "processing") ELSE p

\* faulty variant: done is reached from processing only
_move_to_done_from_processing(p) ==
  IF p.state = "processing" THEN write_and_post(p, "done") ELSE p

_move_to_done(p) ==
  IF p.state # "done" THEN write_and_post(p, "done") ELSE p

\* mrp.production.search([('origin', 'ilike', self.name)])
linked_productions(p, prods) ==
  {m \in BagToSet(prods) : like(p.name, m.origin)}

\* the priority rules of _auto_update_state, once its two early returns passed
auto_update_rules(p, prs, pls, exs, prods) ==
  LET pricings_ == BagToSet(prs)
      plannings_ == BagToSet(pls)
      executions_ == BagToSet(exs)
      productions_ == linked_productions(p, prods)
  IN
  \* Priority 1: all work is done
  IF /\ executions_ # {} /\ \A e \in executions_ : e.state = "done"
     /\ plannings_ # {} /\ \A pl \in plannings_ : pl.state = "done"
     /\ productions_ # {} /\ \A m \in productions_ : m.state = "done"
    THEN _move_to_done(p)
  \* Priority 2: work orders are in progress
  ELSE IF executions_ # {} /\ \E e \in executions_ : e.state \in {"loaded", "in_progress"}
    THEN _move_to_processing(p)
  ELSE IF productions_ # {}
          /\ \E m \in productions_ : m.state \in {"confirmed", "progress", "to_close"}
    THEN _move_to_processing(p)
  \* Priority 3: a planning has work orders
  ELSE IF plannings_ # {}
          /\ \E pl \in plannings_ : pl.state \in {"work_orders_created", "done"}
    THEN IF p.state \notin {"planning", "processing", "done"} THEN _move_to_planning(p) ELSE p
  \* Priority 4: a planning exists past draft
  ELSE IF plannings_ # {} /\ \E pl \in plannings_ : pl.state # "draft"
    THEN IF p.state \notin {"planning", "processing", "done"} THEN _move_to_planning(p) ELSE p
  \* Priority 5: a pricing is confirmed or approved
  ELSE IF pricings_ # {} /\ \E pr \in pricings_ : pr.state \in {"confirmed", "approved"}
    THEN IF p.state = "draft" THEN _move_to_pricing(p) ELSE p
  \* Priority 6: a pricing exists past draft
  ELSE IF pricings_ # {} /\ \E pr \in pricings_ : pr.state # "draft"
    THEN IF p.state = "draft" THEN _move_to_pricing(p) ELSE p
  ELSE p

\* faulty variant: the early return on done / cancelled is missing
_auto_update_state_no_skip(p, prs, pls, exs, prods) ==
  IF ~p.auto_update_state THEN p
  ELSE auto_update_rules(p, prs, pls, exs, prods)

\* faulty variant: the early return on a disabled auto_update_state is missing
_auto_update_state_no_flag(p, prs, pls, exs, prods) ==
  IF p.state \in {"done", "cancelled"} THEN p
  ELSE auto_update_rules(p, prs, pls, exs, prods)

_auto_update_state(p, prs, pls, exs, prods) ==
  IF ~p.auto_update_state THEN p
  \* Skip if already done or cancelled
  ELSE IF p.state \in {"done", "cancelled"} THEN p
  ELSE auto_update_rules(p, prs, pls, exs, prods)

\* for project in self: project._auto_update_state()
update_project_state(p, prs, pls, exs, prods) ==
  _auto_update_state(p, prs, pls, exs, prods)

\* the callers' "if rec.project_id and rec.project_id.auto_update_state:
\*     rec.project_id.update_project_state()"
trigger_update(p, prs, pls, exs, prods) ==
  IF p.auto_update_state THEN update_project_state(p, prs, pls, exs, prods) ELSE p

(* ------------------------------ Init ---------------------------------- *)

processVars == <<moves, workorders, processWizard, request, report, before>>

\* no work.order.process.wizard exists and no request is in flight
NoWizard ==
  [open |-> FALSE, material_line_ids |-> <<>>, operation_line_ids |-> <<>>]

Idle == [pc |-> "idle"]

NoReport == [type |-> "none"]

NoProcess ==
  /\ moves = <<>>
  /\ workorders = <<>>
  /\ processWizard = NoWizard
  /\ request = Idle
  /\ report = NoReport
  /\ before = [moves |-> <<>>, workorders |-> <<>>]

estimationVars == <<product_lines, estimation, importWizard>>

\* no estimation workbook is followed
NoEstimation ==
  /\ product_lines = <<>>
  /\ estimation = [state |-> "draft"]
  /\ importWizard = [open |-> FALSE]

permissionVars == <<user_permissions>>

\* no user.screen.permission record exists
NoPermissions == user_permissions = <<>>

Init ==
  /\ project = [name |-> ProjectName, state |-> "draft",
                auto_update_state |-> TRUE, messages |-> 0]
  /\ pricings = EmptyBag
  /\ plannings = EmptyBag
  /\ executions = EmptyBag
  /\ productions = EmptyBag
  /\ wizards = EmptyBag
  /\ lastOp = "init"
  /\ outcome = "returned"
  /\ stateBefore = "draft"
  /\ NoProcess
  /\ NoEstimation
  /\ NoPermissions

\* the project as an operation finds it: nothing posted by this operation yet
Started(p) == [p EXCEPT !.messages = 0]

\* bookkeeping of the operation that runs
Ran(op) == lastOp' = op /\ outcome' = "returned" /\ stateBefore' = project.state

\* an operation that ended with an unhandled error
Raised(op) == lastOp' = op /\ outcome' = "raised" /\ stateBefore' = project.state

\* what the operations on the project and its related records leave alone
lifecycleRest == <<wizards, processVars, estimationVars,
    permissionVars>>

(* -------------------- project.definition: actions --------------------- *)

UpdateProjectState ==
  /\ project' = update_project_state(Started(project), pricings, plannings,
                                     executions, productions)
  /\ UNCHANGED <<pricings, plannings, executions, productions>>
  /\ Ran("update_project_state")
  /\ UNCHANGED lifecycleRest

\* action_pricing / action_planning / action_processing / action_done /
\* action_cancel / action_draft: self.write({'state': ...})
manual_target(op) ==
  CASE op = "action_pricing" -> "pricing"
    [] op = "action_planning" -> "planning"
    [] op = "action_processing" -> "processing"
    [] op = "action_done" -> "done"
    [] op = "action_cancel" -> "cancelled"
    [] op = "action_draft" -> "draft"

ManualOps ==
  {"action_pricing", "action_planning", "action_processing", "action_done",
   "action_cancel", "action_draft"}

ManualAction ==
  \E op \in ManualOps :
    /\ project' = [Started(project) EXCEPT !.state = manual_target(op)]
    /\ UNCHANGED <<pricings, plannings, executions, productions>>
    /\ Ran(op)
    /\ UNCHANGED lifecycleRest

\* the auto_update_state checkbox of the project form
SetAutoUpdate ==
  \E b \in BOOLEAN :
    /\ b # project.auto_update_state
    /\ project' = [Started(project) EXCEPT !.auto_update_state = b]
    /\ UNCHANGED <<pricings, plannings, executions, productions>>
    /\ Ran("project.write")
    /\ UNCHANGED lifecycleRest

(* ---------------- pricing / planning / execution records -------------- *)

PricingCreate ==
  /\ NumRecords < MaxRecords
  /\ pricings' = BagAdd(pricings, [state |-> "draft"])
  /\ project' = trigger_update(Started(project), pricings', plannings, executions, productions)
  /\ UNCHANGED <<plannings, executions, productions>>
  /\ Ran("pricing.create")
  /\ UNCHANGED lifecycleRest

PricingWrite ==
  \E r \in BagToSet(pricings), s \in PricingStates :
    /\ pricings' = BagReplace(pricings, r, [r EXCEPT !.state = s])
    /\ project' = trigger_update(Started(project), pricings', plannings, executions, productions)
    /\ UNCHANGED <<plannings, executions, productions>>
    /\ Ran("pricing.write")
    /\ UNCHANGED lifecycleRest

PlanningCreate ==
  /\ NumRecords < MaxRecords
  /\ plannings' = BagAdd(plannings, [state |-> "draft"])
  /\ project' = trigger_update(Started(project), pricings, plannings', executions, productions)
  /\ UNCHANGED <<pricings, executions, productions>>
  /\ Ran("planning.create")
  /\ UNCHANGED lifecycleRest

PlanningWrite ==
  \E r \in BagToSet(plannings), s \in PlanningStates :
    /\ plannings' = BagReplace(plannings, r, [r EXCEPT !.state = s])
    /\ project' = trigger_update(Started(project), pricings, plannings', executions, productions)
    /\ UNCHANGED <<pricings, executions, productions>>
    /\ Ran("planning.write")
    /\ UNCHANGED lifecycleRest

ExecutionCreate ==
  /\ NumRecords < MaxRecords
  /\ executions' = BagAdd(executions, [state |-> "draft"])
  /\ project' = trigger_update(Started(project), pricings, plannings, executions', productions)
  /\ UNCHANGED <<pricings, plannings, productions>>
  /\ Ran("execution.create")
  /\ UNCHANGED lifecycleRest

ExecutionWrite ==
  \E r \in BagToSet(executions), s \in ExecutionStates :
    /\ executions' = BagReplace(executions, r, [r EXCEPT !.state = s])
    /\ project' = trigger_update(Started(project), pricings, plannings, executions', productions)
    /\ UNCHANGED <<pricings, plannings, productions>>
    /\ Ran("execution.write")
    /\ UNCHANGED lifecycleRest

(* --------------------- production orders (mrp) ------------------------ *)

\* a production order whose origin names the project appears
ProductionCreate ==
  /\ NumRecords < MaxRecords
  /\ productions' = BagAdd(productions, [origin |-> project.name, state |-> "draft"])
  /\ project' = Started(project)
  /\ UNCHANGED <<pricings, plannings, executions>>
  /\ Ran("production.create")
  /\ UNCHANGED lifecycleRest

\* the manufacturing application moves a production order to another state
ProductionSetState ==
  \E r \in BagToSet(productions), s \in ProductionStates :
    /\ s # r.state
    /\ productions' = BagReplace(productions, r, [r EXCEPT !.state = s])
    /\ project' = Started(project)
    /\ UNCHANGED <<pricings, plannings, executions>>
    /\ Ran("production.state")
    /\ UNCHANGED lifecycleRest

Next ==
  \/ UpdateProjectState
  \/ ManualAction
  \/ SetAutoUpdate
  \/ PricingCreate
  \/ PricingWrite
  \/ PlanningCreate
  \/ PlanningWrite
  \/ ExecutionCreate
  \/ ExecutionWrite
  \/ ProductionCreate
  \/ ProductionSetState

Spec == Init /\ [][Next]_vars

(* ------------------- properties of the project lifecycle -------------- *)

\* the operations that call update_project_state
AutoOps ==
  {"update_project_state", "pricing.create", "pricing.write", "planning.create",
   "planning.write", "execution.create", "execution.write"}

EveryExecutionDone == \A e \in BagToSet(executions) : e.state = "done"

EveryPlanningDone == \A pl \in BagToSet(plannings) : pl.state = "done"

EveryProductionDone ==
  \A m \in linked_productions(project, productions) : m.state = "done"

SomeOfEach ==
  /\ BagToSet(executions) # {}
  /\ BagToSet(plannings) # {}
  /\ linked_productions(project, productions) # {}

\* C1: an operation that runs update_project_state on a project whose state is
\* done or cancelled leaves the project state as it is, whatever the states of
\* the pricings, plannings, executions and linked production orders.
C1_DoneCancelledKept ==
  (lastOp \in AutoOps /\ stateBefore \in {"done", "cancelled"})
    => project.state = stateBefore

\* update_project_state has run on a cancelled project with auto update on
\* while all executions, plannings and linked production orders are done
C1_Witness ==
  /\ lastOp = "update_project_state"
  /\ stateBefore = "cancelled"
  /\ project.auto_update_state
  /\ SomeOfEach /\ EveryExecutionDone /\ EveryPlanningDone /\ EveryProductionDone

\* C2: no operation other than action_draft and action_cancel moves the project
\* state to an earlier stage of draft, pricing, planning, processing, done.
C2_NeverEarlierStage ==
  (/\ lastOp \notin {"action_draft", "action_cancel"}
   /\ stateBefore \in Stages
   /\ project.state \in Stages)
    => StageRank(project.state) >= StageRank(stateBefore)

\* C3: every state change made by an operation that runs update_project_state
\* goes from a stage to a strictly later stage.
C3_AutoChangeIsForward ==
  (lastOp \in AutoOps /\ project.state # stateBefore)
    => /\ stateBefore \in Stages
       /\ project.state \in Stages
       /\ StageRank(project.state) > StageRank(stateBefore)

\* cancelling a planning has just moved the project forward from draft to planning
C3_Witness ==
  /\ lastOp = "planning.write"
  /\ stateBefore = "draft"
  /\ NoProcess
  /\ NoEstimation
  /\ project.state = "planning"
  /\ \E pl \in BagToSet(plannings) : pl.state = "cancelled"

\* C4 as stated: update_project_state on a project with auto update on, not
\* done or cancelled, with every execution, planning and linked production
\* order done, makes the project done.
C4_AllDoneMovesToDone ==
  (/\ lastOp = "update_project_state"
   /\ project.auto_update_state
   /\ stateBefore \notin {"done", "cancelled"}
   /\ EveryExecutionDone /\ EveryPlanningDone /\ EveryProductionDone)
    => project.state = "done"

\* C4 amended: the same, provided there is at least one execution, one
\* planning and one linked production order.
C4_AllDoneNonEmptyMovesToDone ==
  (/\ lastOp = "update_project_state"
   /\ project.auto_update_state
   /\ stateBefore \notin {"done", "cancelled"}
   /\ SomeOfEach
   /\ EveryExecutionDone /\ EveryPlanningDone /\ EveryProductionDone)
    => project.state = "done"

\* update_project_state has just moved a draft project to done
C4_Witness ==
  /\ lastOp = "update_project_state"
  /\ stateBefore = "draft"
  /\ NoProcess
  /\ NoEstimation
  /\ project.state = "done"
  /\ SomeOfEach /\ EveryExecutionDone /\ EveryPlanningDone /\ EveryProductionDone

\* C5: with auto_update_state disabled, update_project_state and every create
\* or state write of a pricing, planning or execution keep the project state.
\* (None of these operations writes the flag, so it is read after the operation.)
C5_DisabledKeepsState ==
  (lastOp \in AutoOps /\ ~project.auto_update_state)
    => project.state = stateBefore

\* a pricing was confirmed while auto update was off and the project stayed draft
C5_Witness ==
  /\ lastOp = "pricing.write"
  /\ ~project.auto_update_state
  /\ project.state = "draft"
  /\ \E pr \in BagToSet(pricings) : pr.state = "confirmed"

\* C6: an operation that runs update_project_state posts exactly one audit-log
\* message when it changes the project state and none when it does not.
C6_OneMessagePerAutoChange ==
  lastOp \in AutoOps
    => project.messages = (IF project.state # stateBefore THEN 1 ELSE 0)

\* update_project_state has just moved the project from pricing to processing
\* and posted its one message
C6_Witness ==
  /\ lastOp = "update_project_state"
  /\ stateBefore = "pricing"
  /\ project.state = "processing"
  /\ project.messages = 1

\* the done rule (Priority 1) applies
DoneRule ==
  SomeOfEach /\ EveryExecutionDone /\ EveryPlanningDone /\ EveryProductionDone

\* the processing rule (Priority 2) applies
ProcessingRule ==
  \/ \E e \in BagToSet(executions) : e.state \in {"loaded", "in_progress"}
  \/ \E m \in linked_productions(project, productions) :
       m.state \in {"confirmed", "progress", "to_close"}

\* the planning rule (Priorities 3 and 4) applies
PlanningRule == \E pl \in BagToSet(plannings) : pl.state # "draft"

\* the pricing rule (Priorities 5 and 6) applies
PricingRule == \E pr \in BagToSet(pricings) : pr.state # "draft"

\* an operation has run update_project_state with auto update enabled
AutoUpdateRan == lastOp \in AutoOps /\ project.auto_update_state

\* C17: when update_project_state runs with auto update enabled and the done
\* rule does not apply, an execution that is loaded or in progress, or a
\* linked production order that is confirmed, in progress or to close, moves
\* a project in draft, pricing or planning to processing, whatever the
\* plannings and pricings are
C17_ProcessingRuleWins ==
  (/\ AutoUpdateRan
   /\ ~DoneRule
   /\ ProcessingRule
   /\ stateBefore \in {"draft", "pricing", "planning"})
    => project.state = "processing"

\* a draft project went to processing on a confirmed linked production order
\* although a planning had left draft and a pricing was confirmed
C17_Witness ==
  /\ AutoUpdateRan
  /\ stateBefore = "draft"
  /\ project.state = "processing"
  /\ BagToSet(executions) = {}
  /\ \E m \in linked_productions(project, productions) : m.state = "confirmed"
  /\ PlanningRule
  /\ PricingRule

\* C18: when neither the done rule nor the processing rule applies and a
\* planning has left draft, a project in draft or pricing moves to planning
\* and a project in planning or processing keeps its state, whatever the
\* pricings are
C18_PlanningRule ==
  (/\ AutoUpdateRan
   /\ ~DoneRule
   /\ ~ProcessingRule
   /\ PlanningRule)
    => /\ stateBefore \in {"draft", "pricing"} => project.state = "planning"
       /\ stateBefore \in {"planning", "processing"} => project.state = stateBefore

\* a project in pricing went to planning on a planning that was cancelled,
\* while a pricing was approved
C18_Witness ==
  /\ AutoUpdateRan
  /\ ~ProcessingRule
  /\ stateBefore = "pricing"
  /\ project.state = "planning"
  /\ \A pl \in BagToSet(plannings) : pl.state \in {"draft", "cancelled"}
  /\ \E pr \in BagToSet(pricings) : pr.state = "approved"

\* C19: when none of the done, processing and planning rules applies and a
\* pricing has left draft, a project in draft moves to pricing and a project
\* in any other state keeps its state
C19_PricingRule ==
  (/\ AutoUpdateRan
   /\ ~DoneRule
   /\ ~ProcessingRule
   /\ ~PlanningRule
   /\ PricingRule)
    => /\ stateBefore = "draft" => project.state = "pricing"
       /\ stateBefore # "draft" => project.state = stateBefore

\* a draft project went to pricing on a pricing that was cancelled, with a
\* draft planning and a draft execution in place
C19_Witness ==
  /\ AutoUpdateRan
  /\ stateBefore = "draft"
  /\ project.state = "pricing"
  /\ \A pr \in BagToSet(pricings) : pr.state = "cancelled"
  /\ \E pl \in BagToSet(plannings) : pl.state = "draft"
  /\ \E e \in BagToSet(executions) : e.state = "draft"

\* the operations that write the state of a pricing, a planning or an
\* execution
StateWrites == {"pricing.write", "planning.write", "execution.write"}

\* C24: after an operation that wrote the state of a pricing, a planning or
\* an execution while auto-update is enabled, the project state is a fixed
\* point of the automatic update: update_project_state run once more would
\* leave it as it is
C24_FixedPointAfterWrite ==
  (lastOp \in StateWrites /\ outcome = "returned" /\ project.auto_update_state) =>
    update_project_state(project, pricings, plannings, executions,
                         productions).state = project.state

\* a write of an execution's state has taken the project from draft
\* straight to processing
C24_Witness ==
  /\ lastOp = "execution.write"
  /\ outcome = "returned"
  /\ project.auto_update_state
  /\ stateBefore = "draft"
  /\ project.state = "processing"
  /\ \E e \in BagToSet(executions) : e.state \in {"loaded", "in_progress"}

\* a pricing, planning or execution past draft and not cancelled, or a
\* linked production order that is active or done
SomeActiveRecord ==
  \/ \E pr \in BagToSet(pricings) : pr.state \notin {"draft", "cancelled"}
  \/ \E pl \in BagToSet(plannings) : pl.state \notin {"draft", "cancelled"}
  \/ \E e \in BagToSet(executions) : e.state \notin {"draft", "cancelled"}
  \/ \E m \in linked_productions(project, productions) :
       m.state \in {"confirmed", "progress", "to_close", "done"}

\* C25: the automatic update takes a project out of draft only when one of
\* its pricings, plannings or executions is past draft and not cancelled, or
\* a linked production order is active or done
C25_AdvanceNeedsActiveRecord ==
  (lastOp \in AutoOps /\ stateBefore = "draft" /\ project.state # "draft")
    => SomeActiveRecord

(***************************************************************************)
(* Work-order creation: material.production.planning and the               *)
(* work.order.creation.wizard.  Quantities are exact rationals [n, d];     *)
(* the rounding of the float fields is left out.                           *)
(***************************************************************************)

\* the planned and the requested quantity of the main product range over
\* 1..MaxQuantity
MaxQuantity == 2

\* at most this many wizards are open at a time
MaxWizards == 1

\* at most this many production orders of the main product are created
MaxOrders == 2

MainProduct == "P"

RECURSIVE GCD(_, _)
GCD(a, b) == IF b = 0 THEN a ELSE GCD(b, a % b)

Rat(n, d) == LET g == GCD(n, d) IN [n |-> n \div g, d |-> d \div g]

RatAdd(a, b) == Rat(a.n * b.d + b.n * a.d, a.d * b.d)

RatMul(a, b) == Rat(a.n * b.n, a.d * b.d)

RatDiv(a, b) == Rat(a.n * b.d, a.d * b.n)

RatLess(a, b) == a.n * b.d < b.n * a.d

Zero == [n |-> 0, d |-> 1]

Whole(k) == [n |-> k, d |-> 1]

\* sum(records.mapped('product_qty'))
RECURSIVE sum_product_qty(_, _)
sum_product_qty(S, B) ==
  IF S = {} THEN Zero
  ELSE LET r == CHOOSE x \in S : TRUE
       IN RatAdd(RatMul(Whole(CopiesIn(r, B)), r.product_qty),
                 sum_product_qty(S \ {r}, B))

\* the component lines a pricing may hold: user data
ComponentLine(c) ==
  [component : {c}, quantity : {1, 2}, bom : BOOLEAN]

\* a pricing lists none, one or two components
ComponentLists ==
  {<<>>} \cup {<<l>> : l \in ComponentLine("C1")}
         \cup {<<l, m>> : l \in ComponentLine("C1"), m \in ComponentLine("C2")}

\* name given by ir.sequence: one token for the prefix, one for the number
planning_name(k) == <<"MPP", ToString(k)>>

\* the origin of a component production order: f"{planning.name} - {component.name}"
component_origin(pl, c) == pl.name \o <<"-", c>>

\* _compute_produced_quantities: production_order_ids filtered on the main product
main_productions(pl, prods) ==
  {m \in BagToSet(prods) : m.planning = pl.name /\ m.product = pl.product}

total_produced_qty(pl, prods) == sum_product_qty(main_productions(pl, prods), prods)

\* the number of the planning's production orders of the main product
num_main_productions(pl, prods) ==
  BagCardinality([m \in main_productions(pl, prods) |-> CopiesIn(m, prods)])

\* max(0, record.quantity - total_qty)
remaining_qty(pl, prods) ==
  LET total == total_produced_qty(pl, prods)
  IN IF RatLess(Whole(pl.quantity), total) THEN Zero
     ELSE Rat(pl.quantity * total.d - total.n, total.d)

\* faulty variant: the origin is compared for equality, which misses the
\* component orders, whose origin carries the component's name
existing_productions_equal(pl, c, prods) ==
  {m \in BagToSet(prods) : m.origin = pl.name /\ m.product = c}

\* self.env['mrp.production'].search([('origin', 'like', planning.name),
\*                                    ('product_id', '=', comp.component_id.id)])
existing_productions(pl, c, prods) ==
  {m \in BagToSet(prods) : like(pl.name, m.origin) /\ m.product = c}

\* the values of a production order created for a planning
production_vals(pl, product, qty, origin) ==
  [product |-> product, product_qty |-> qty, origin |-> origin,
   state |-> "draft", planning |-> pl.name]

\* the loop over planning.component_line_ids from line i on; prods is the
\* table of production orders as the loop finds it
RECURSIVE component_orders(_, _, _, _)
component_orders(w, pl, i, prods) ==
  IF i > Len(pl.components) THEN [raised |-> FALSE, productions |-> prods]
  ELSE
    LET comp == pl.components[i]
        ratio == IF pl.quantity > 0
                 THEN RatDiv(w.quantity_to_produce, Whole(pl.quantity))
                 ELSE Whole(1)
        component_qty == RatMul(Whole(comp.quantity), ratio)
        existing == existing_productions(pl, comp.component, prods)
        total_existing == sum_product_qty(existing, prods)
    IN
    IF ~comp.bom THEN component_orders(w, pl, i + 1, prods)
    ELSE IF RatLess(Whole(comp.quantity), RatAdd(total_existing, component_qty))
      THEN [raised |-> TRUE, productions |-> prods]
    ELSE component_orders(w, pl, i + 1,
           BagAdd(prods, production_vals(pl, comp.component, component_qty,
                                         component_origin(pl, comp.component))))

\* "if self.quantity_to_produce > self.max_quantity: raise UserError"
quantity_allowed(w) == ~RatLess(w.max_quantity, w.quantity_to_produce)

\* action_create_orders up to the write on the planning: the production
\* orders as the method leaves them, and whether it raised
create_productions(w, pl, prods) ==
  IF ~quantity_allowed(w) THEN [raised |-> TRUE, productions |-> prods]
  ELSE
    LET withMain == BagAdd(prods, production_vals(pl, w.product,
                                                  w.quantity_to_produce, pl.name))
    IN IF w.create_component_orders
       THEN component_orders(w, pl, 1, withMain)
       ELSE [raised |-> FALSE, productions |-> withMain]

\* _check_quantity, the constraint on quantity_to_produce
_check_quantity(w) ==
  /\ RatLess(Zero, w.quantity_to_produce)
  /\ ~RatLess(w.max_quantity, w.quantity_to_produce)

(* --------------- material.production.planning: actions ---------------- *)

orderRest == <<pricings, executions, processVars, estimationVars,
    permissionVars>>

\* the planning a wizard was opened on
planning_id(w) == CHOOSE pl \in BagToSet(plannings) : pl.name = w.planning

\* the state once the project and the pricing of its product exist: the
\* pricing's component lines are the user's data
InitOrders ==
  /\ \E lines \in ComponentLists :
       pricings = SetToBag({[state |-> "draft", components |-> lines]})
  /\ project = Started(trigger_update(
                 [name |-> ProjectName, state |-> "draft",
                  auto_update_state |-> TRUE, messages |-> 0],
                 pricings, EmptyBag, EmptyBag, EmptyBag))
  /\ plannings = EmptyBag
  /\ executions = EmptyBag
  /\ productions = EmptyBag
  /\ wizards = EmptyBag
  /\ lastOp = "pricing.create"
  /\ outcome = "returned"
  /\ stateBefore = "draft"
  /\ NoProcess
  /\ NoEstimation
  /\ NoPermissions

\* create(): the name is drawn from the sequence, then the project is updated;
\* pricing_id tells whether the user picked the pricing reference
MaterialProductionPlanningCreate ==
  /\ plannings = EmptyBag   \* one planning is followed
  /\ \E q \in 1..MaxQuantity, pricing_id \in BOOLEAN :
       LET pl == [name |-> planning_name(BagCardinality(plannings) + 1),
                  product |-> MainProduct, quantity |-> q,
                  pricing_id |-> pricing_id,
                  components |-> <<>>, material_requirement_ids |-> <<>>,
                  create_date |-> BagCardinality(plannings) + 1,
                  state |-> "draft"]
       IN plannings' = BagAdd(plannings, pl)
  /\ project' = trigger_update(Started(project), pricings, plannings',
                               executions, productions)
  /\ Ran("planning.create")
  /\ UNCHANGED <<productions, wizards, orderRest>>

\* the component lines of the planning's pricing reference
pricing_component_lines == (CHOOSE pr \in BagToSet(pricings) : TRUE).components

\* action_load_components: replaces the planning's component lines by copies
\* of the pricing's
action_load_components ==
  \E pl \in BagToSet(plannings) :
    /\ IF ~pl.pricing_id
       THEN /\ Raised("action_load_components")
            /\ UNCHANGED <<project, plannings>>
       ELSE /\ plannings' = BagReplace(plannings, pl,
                 [pl EXCEPT !.components = pricing_component_lines,
                            !.state = "components_loaded"])
            /\ project' = trigger_update(Started(project), pricings, plannings',
                                         executions, productions)
            /\ Ran("action_load_components")
    /\ UNCHANGED <<productions, wizards, orderRest>>

\* action_create_work_orders: opens a wizard on the remaining quantity
action_create_work_orders ==
  \E pl \in BagToSet(plannings) :
    /\ IF pl.components = <<>> \/ ~RatLess(Zero, remaining_qty(pl, productions))
       THEN /\ Raised("action_create_work_orders")
            /\ UNCHANGED <<project, wizards>>
       ELSE /\ BagCardinality(wizards) < MaxWizards
            /\ wizards' = BagAdd(wizards,
                 [planning |-> pl.name, product |-> pl.product,
                  max_quantity |-> remaining_qty(pl, productions),
                  quantity_to_produce |-> remaining_qty(pl, productions),
                  create_component_orders |-> TRUE])
            /\ project' = Started(project)
            /\ Ran("action_create_work_orders")
    /\ UNCHANGED <<plannings, productions, orderRest>>

(* ---------------- work.order.creation.wizard: actions ----------------- *)

\* the user edits the wizard's form; _check_quantity guards the write
WizardWrite ==
  \E w \in BagToSet(wizards), q \in 0..MaxQuantity, c \in BOOLEAN :
    LET w2 == [w EXCEPT !.quantity_to_produce = Whole(q),
                        !.create_component_orders = c]
    IN /\ IF _check_quantity(w2)
          THEN /\ wizards' = BagReplace(wizards, w, w2)
               /\ project' = Started(project)
               /\ Ran("wizard.write")
          ELSE /\ Raised("wizard.write")
               /\ UNCHANGED <<project, wizards>>
       /\ UNCHANGED <<plannings, productions, orderRest>>

\* action_create_orders; an unhandled error rolls the request back
action_create_orders ==
  \E w \in BagToSet(wizards) :
    LET pl == planning_id(w)
        r == create_productions(w, pl, productions)
    IN /\ IF r.raised
          THEN /\ Raised("action_create_orders")
               /\ UNCHANGED <<project, plannings, productions>>
          ELSE /\ num_main_productions(pl, productions) < MaxOrders
               /\ productions' = r.productions
               /\ plannings' = BagReplace(plannings, pl,
                    [pl EXCEPT !.state = "work_orders_created"])
               /\ project' = trigger_update(Started(project), pricings, plannings',
                                            executions, productions')
               /\ Ran("action_create_orders")
       /\ UNCHANGED <<wizards, orderRest>>

\* the wizard is a TransientModel: its records are vacuumed after a while
WizardUnlink ==
  \E w \in BagToSet(wizards) :
    /\ wizards' = BagRemove(wizards, w)
    /\ project' = Started(project)
    /\ Ran("wizard.unlink")
    /\ UNCHANGED <<plannings, productions, orderRest>>

NextOrders ==
  \/ MaterialProductionPlanningCreate
  \/ action_load_components
  \/ action_create_work_orders
  \/ WizardWrite
  \/ WizardUnlink
  \/ action_create_orders

SpecOrders == InitOrders /\ [][NextOrders]_vars

(* ------------------- properties of work-order creation ---------------- *)

\* the production orders created for component c under planning pl
component_productions(pl, c, prods) ==
  {m \in BagToSet(prods) : m.planning = pl.name /\ m.product = c}

\* C7: over any sequence of opening and confirming work-order creation
\* wizards on a planning, the total quantity of its main-product production
\* orders never exceeds the planned quantity
C7_MainTotalWithinPlanned ==
  \A pl \in BagToSet(plannings) :
    ~RatLess(Whole(pl.quantity), total_produced_qty(pl, productions))

\* C8: after any sequence of work-order creations, the cumulative quantity
\* ordered for a BOM-linked component of a planning never exceeds the
\* component's planned quantity
C8_ComponentTotalWithinPlanned ==
  \A pl \in BagToSet(plannings) :
    \A i \in DOMAIN pl.components :
      LET comp == pl.components[i]
      IN comp.bom =>
           ~RatLess(Whole(comp.quantity),
                    sum_product_qty(
                      component_productions(pl, comp.component, productions),
                      productions))

\* C8 happens: action_create_orders returned after its guard re-summed an
\* earlier order of the component, and the component is now ordered in full
C8_Witness ==
  /\ lastOp = "action_create_orders"
  /\ outcome = "returned"
  /\ \E pl \in BagToSet(plannings) :
       \E i \in DOMAIN pl.components :
         LET comp == pl.components[i]
             orders == component_productions(pl, comp.component, productions)
         IN /\ comp.bom
            /\ BagCardinality([m \in orders |-> CopiesIn(m, productions)]) >= 2
            /\ sum_product_qty(orders, productions) = Whole(comp.quantity)

(* ------------------ material requirements of a planning --------------- *)

\* the bom_line_ids of the bill of materials of a component: material and
\* quantity per unit
bom_line_ids(c) ==
  IF c = "C1"
  THEN <<[product_id |-> "M1", product_qty |-> 2],
         [product_id |-> "M2", product_qty |-> 1]>>
  ELSE <<[product_id |-> "M1", product_qty |-> 3]>>

\* the products whose stock a planning can read
Materials == {"M1", "M2", "C1", "C2"}

\* qty_available and outgoing_qty of a product at the time of the call
StockLevels ==
  {[qty_available |-> 5, outgoing_qty |-> 1],
   [qty_available |-> 1, outgoing_qty |-> 3]}

max(a, b) == IF a >= b THEN a ELSE b

\* a shortage that may go below zero
shortage_qty_signed(required_qty, available_qty) == required_qty - available_qty

shortage_qty(required_qty, available_qty) == max(0, required_qty - available_qty)

\* one material.requirement.line
requirement_line(component, material, required_qty, stock) ==
  LET available_qty == stock[material].qty_available - stock[material].outgoing_qty
  IN [component_id |-> component, material_id |-> material,
      required_qty |-> required_qty, available_qty |-> available_qty,
      shortage_qty |-> shortage_qty(required_qty, available_qty)]

\* the lines action_material_planning collects for one component line
component_requirements(comp, stock) ==
  IF comp.bom
  THEN [k \in DOMAIN bom_line_ids(comp.component) |->
          LET bom_line == bom_line_ids(comp.component)[k]
          IN requirement_line(comp.component, bom_line.product_id,
                              bom_line.product_qty * comp.quantity, stock)]
  ELSE <<requirement_line(comp.component, comp.component, comp.quantity, stock)>>

\* the lines collected for the component lines from line i on
RECURSIVE material_lines_from(_, _, _)
material_lines_from(components, i, stock) ==
  IF i > Len(components) THEN <<>>
  ELSE component_requirements(components[i], stock)
         \o material_lines_from(components, i + 1, stock)

materialRest ==
  <<pricings, executions, productions, wizards, moves, workorders,
    processWizard, request, report, estimationVars,
    permissionVars>>

\* action_material_planning: replaces the requirement lines by lines computed
\* from the stock as it is now
action_material_planning ==
  \E pl \in BagToSet(plannings), stock \in [Materials -> StockLevels] :
    /\ before' = [stock |-> stock]
    /\ IF pl.components = <<>>
       THEN /\ Raised("action_material_planning")
            /\ UNCHANGED <<project, plannings>>
       ELSE /\ plannings' = BagReplace(plannings, pl,
                 [pl EXCEPT !.material_requirement_ids =
                              material_lines_from(pl.components, 1, stock),
                            !.state = "material_planned"])
            /\ project' = trigger_update(Started(project), pricings, plannings',
                                         executions, productions)
            /\ Ran("action_material_planning")
    /\ UNCHANGED materialRest

action_done ==
  \E pl \in BagToSet(plannings) :
    /\ plannings' = BagReplace(plannings, pl, [pl EXCEPT !.state = "done"])
    /\ project' = trigger_update(Started(project), pricings, plannings',
                                 executions, productions)
    /\ Ran("action_done")
    /\ UNCHANGED <<before, materialRest>>

action_cancel ==
  \E pl \in BagToSet(plannings) :
    /\ plannings' = BagReplace(plannings, pl, [pl EXCEPT !.state = "cancelled"])
    /\ project' = trigger_update(Started(project), pricings, plannings',
                                 executions, productions)
    /\ Ran("action_cancel")
    /\ UNCHANGED <<before, materialRest>>

NextMaterial ==
  \/ MaterialProductionPlanningCreate
  \/ action_load_components
  \/ action_material_planning
  \/ action_done
  \/ action_cancel

SpecMaterial == InitOrders /\ [][NextMaterial]_vars

(* ----------------- properties of material requirements ---------------- *)

\* C12: after action_material_planning every requirement line holds
\* required = per-unit quantity of the BOM line times the component's planned
\* quantity (the planned quantity itself for a component without BOM),
\* available = on hand minus outgoing, and shortage = max(0, required -
\* available), which is never negative; there is one line per BOM line of a
\* component with BOM and one per component without
C12_RequirementLines ==
  (lastOp = "action_material_planning" /\ outcome = "returned") =>
    \A pl \in BagToSet(plannings) :
      LET lines == pl.material_requirement_ids
          stock == before.stock
          \* the lines of component line i
          of(i) == {k \in DOMAIN lines :
                      lines[k].component_id = pl.components[i].component}
      IN /\ \A k \in DOMAIN lines :
              LET r == lines[k]
                  on_hand == stock[r.material_id].qty_available
                  outgoing == stock[r.material_id].outgoing_qty
              IN /\ r.available_qty = on_hand - outgoing
                 /\ r.shortage_qty >= 0
                 /\ r.required_qty - r.available_qty > 0
                      => r.shortage_qty = r.required_qty - r.available_qty
                 /\ r.required_qty - r.available_qty <= 0 => r.shortage_qty = 0
                 /\ \E i \in DOMAIN pl.components : k \in of(i)
         /\ \A i \in DOMAIN pl.components :
              LET comp == pl.components[i]
              IN IF comp.bom
                 THEN /\ Cardinality(of(i)) = Len(bom_line_ids(comp.component))
                      /\ \A b \in DOMAIN bom_line_ids(comp.component) :
                           \E k \in of(i) :
                             /\ lines[k].material_id =
                                  bom_line_ids(comp.component)[b].product_id
                             /\ lines[k].required_qty =
                                  bom_line_ids(comp.component)[b].product_qty
                                    * comp.quantity
                 ELSE /\ Cardinality(of(i)) = 1
                      /\ \A k \in of(i) :
                           /\ lines[k].material_id = comp.component
                           /\ lines[k].required_qty = comp.quantity

\* C12 happens: a planning with a BOM component and a component without BOM
\* was planned while more was outgoing than on hand for one material and
\* stock covered the need for another
C12_Witness ==
  /\ lastOp = "action_material_planning"
  /\ outcome = "returned"
  /\ \E pl \in BagToSet(plannings) :
       LET lines == pl.material_requirement_ids
       IN /\ \E k \in DOMAIN lines :
               /\ lines[k].available_qty < 0
               /\ lines[k].shortage_qty > lines[k].required_qty
          /\ \E k \in DOMAIN lines :
               /\ lines[k].available_qty > lines[k].required_qty
               /\ lines[k].shortage_qty = 0
          /\ \E k \in DOMAIN lines : lines[k].component_id # lines[k].material_id
          /\ \E k \in DOMAIN lines : lines[k].component_id = lines[k].material_id

\* position of a planning state in the order of its stages
PlanningRank(s) ==
  CASE s = "draft" -> 0
    [] s = "components_loaded" -> 1
    [] s = "material_planned" -> 2
    [] s = "work_orders_created" -> 3
    [] s = "done" -> 4
    [] OTHER -> 5

\* C13: no planning action moves a planning from a stage of draft,
\* components_loaded, material_planned, work_orders_created, done to an
\* earlier stage of that order
C13_PlanningOnlyForward ==
  [][\A old \in BagToSet(plannings), new \in BagToSet(plannings') :
       (/\ old.name = new.name
        /\ old.state # "cancelled"
        /\ new.state # "cancelled")
         => PlanningRank(new.state) >= PlanningRank(old.state)]_vars

(* --------------- work.order.execution: loading work orders ------------ *)

\* production order j created for the planning of name n
planning_production(n, product, j) ==
  [product |-> product, product_qty |-> 1, origin |-> n, state |-> "draft",
   planning |-> n, id |-> <<n, j>>]

\* what is drawn for a planning that exists when the execution is opened
PlanningConfigs ==
  [product : {"P", "Q"},
   state : {"material_planned", "work_orders_created", "done"},
   orders : {0, 1, 2}]

\* the plannings of the project in the order of their creation: none, one
\* or two
PlanningHistories ==
  {<<>>} \cup {<<a>> : a \in PlanningConfigs}
         \cup {<<a, b>> : a \in PlanningConfigs, b \in PlanningConfigs}

\* planning.production_order_ids
production_order_ids(pl, prods) ==
  {m \in BagToSet(prods) : m.planning = pl.name}

\* search(..., limit=1, order='create_date desc')
most_recent(S) == CHOOSE pl \in S : \A o \in S : o.create_date <= pl.create_date

\* the plannings the first search of action_load_work_orders looks at
plannings_with_orders_created(ex, pls) ==
  {pl \in BagToSet(pls) :
     pl.product = ex.product /\ pl.state \in {"work_orders_created", "done"}}

\* the production orders in the order the loop visits them
RECURSIVE ordered(_)
ordered(S) ==
  IF S = {} THEN <<>>
  ELSE LET m == CHOOSE x \in S : \A y \in S : x.id[2] <= y.id[2]
       IN <<m>> \o ordered(S \ {m})

\* the work.order.execution.line created for a production order
execution_line(m) ==
  [production_id |-> m.id, component_id |-> m.product, quantity |-> m.product_qty]

\* the lines of an execution after the loop, when the old lines were kept
work_order_lines_kept(ex, orders) ==
  ex.lines \o [i \in DOMAIN orders |-> execution_line(orders[i])]

\* the lines of an execution after the loop: the old lines were unlinked
work_order_lines(ex, orders) ==
  [i \in DOMAIN orders |-> execution_line(orders[i])]

\* production.action_confirm() on the draft orders among S
action_confirm_draft(prods, S) ==
  LET B == BagToSet(prods)
      after(m) == IF m \in S /\ m.state = "draft"
                  THEN [m EXCEPT !.state = "confirmed"] ELSE m
  IN SetToBag({after(m) : m \in B})

executionRest ==
  <<pricings, plannings, wizards, moves, workorders, processWizard, request,
    report, estimationVars,
    permissionVars>>

InitExecution ==
  /\ pricings = EmptyBag
  /\ \E h \in PlanningHistories :
       /\ plannings = SetToBag(
            {[name |-> planning_name(k), product |-> h[k].product,
              quantity |-> 2, pricing_id |-> TRUE, components |-> <<>>,
              material_requirement_ids |-> <<>>, create_date |-> k,
              state |-> h[k].state] : k \in DOMAIN h})
       /\ productions = SetToBag(
            UNION {{planning_production(planning_name(k), h[k].product, j) :
                      j \in 1..h[k].orders} : k \in DOMAIN h})
  /\ executions = SetToBag({[product |-> "P", state |-> "draft", lines |-> <<>>]})
  /\ project = Started(trigger_update(
                 [name |-> ProjectName, state |-> "draft",
                  auto_update_state |-> TRUE, messages |-> 0],
                 pricings, plannings, executions, productions))
  /\ wizards = EmptyBag
  /\ lastOp = "execution.create"
  /\ outcome = "returned"
  /\ stateBefore = "draft"
  /\ moves = <<>>
  /\ workorders = <<>>
  /\ processWizard = NoWizard
  /\ request = Idle
  /\ report = NoReport
  /\ before = [executions |-> executions]
  /\ NoEstimation
  /\ NoPermissions

\* action_load_work_orders; confirm tells how action_confirm of a draft
\* production order ends; an unhandled error rolls the request back
action_load_work_orders ==
  \E ex \in BagToSet(executions), confirm \in {"ok", "error"} :
    LET found == plannings_with_orders_created(ex, plannings)
        planning == most_recent(found)
        orders == production_order_ids(planning, productions)
    IN /\ before' = [executions |-> executions]
       /\ IF \/ found = {}
             \/ orders = {}
             \/ (confirm = "error" /\ \E m \in orders : m.state = "draft")
          THEN /\ Raised("action_load_work_orders")
               /\ UNCHANGED <<project, executions, productions>>
          ELSE /\ productions' = action_confirm_draft(productions, orders)
               /\ executions' = BagReplace(executions, ex,
                    [ex EXCEPT !.lines = work_order_lines(ex, ordered(orders)),
                               !.state = "loaded"])
               /\ project' = trigger_update(Started(project), pricings, plannings,
                                            executions', productions')
               /\ Ran("action_load_work_orders")
       /\ UNCHANGED executionRest

NextExecution ==
  \/ action_load_work_orders
  \/ ExecutionWrite
  \/ action_done
  \/ action_cancel

SpecExecution == InitExecution /\ [][NextExecution]_vars

(* ------------------- properties of loading work orders ---------------- *)

\* the plannings of the execution's product that are in state
\* work_orders_created or done and have at least one production order
LoadablePlannings(ex) ==
  {pl \in plannings_with_orders_created(ex, plannings) :
     production_order_ids(pl, productions) # {}}

\* C14: action_load_work_orders returns only when a planning of the same
\* product is in state work_orders_created or done and has a production
\* order; the execution is then in state loaded and holds exactly one line
\* per production order of the most recent such planning, however often the
\* load is repeated; when it raises, the execution keeps its lines and state
C14_LoadWorkOrders ==
  lastOp = "action_load_work_orders" =>
    \A ex \in BagToSet(executions) :
      IF outcome = "returned"
      THEN /\ LoadablePlannings(ex) # {}
           /\ ex.state = "loaded"
           /\ LET ids == {m.id : m \in production_order_ids(
                                   most_recent(LoadablePlannings(ex)), productions)}
              IN /\ Len(ex.lines) = Cardinality(ids)
                 /\ {ex.lines[i].production_id : i \in DOMAIN ex.lines} = ids
      ELSE executions = before.executions

\* C14 happens: a repeated load returned on an execution that already held
\* lines, and the most recent loadable planning has two production orders
\* while an older one has another number
C14_Witness ==
  /\ lastOp = "action_load_work_orders"
  /\ outcome = "returned"
  /\ \E old \in BagToSet(before.executions) : Len(old.lines) > 0
  /\ \E ex \in BagToSet(executions) :
       /\ Len(ex.lines) = 2
       /\ Cardinality(LoadablePlannings(ex)) = 2
       /\ \E pl \in LoadablePlannings(ex) :
            Cardinality(production_order_ids(pl, productions)) = 1

(***************************************************************************)
(* Bulk processing: work.order.process.wizard and its lines.  The stock    *)
(* and manufacturing calls of the platform are the environment: whether a  *)
(* reservation finds stock and whether a call raises is an input.          *)
(***************************************************************************)

\* at most this many raw-material moves on the processed production
MaxMoves == 2

\* at most this many time-tracking entries are recorded on a work order
MaxProductivity == 2

\* what the platform does for one item: the call goes through with stock
\* reserved, goes through without stock, or raises; with "exit_error" the
\* call goes through with stock reserved and it is the flush on leaving the
\* savepoint block that raises
MaterialEnv == {"available", "unavailable", "error", "exit_error"}

OperationEnv == {"ok", "error", "exit_error"}

\* move._action_confirm()
_action_confirm(state) == IF state = "draft" THEN "confirmed" ELSE state

\* move._action_assign(): only a confirmed move is reserved, if stock is there
_action_assign(state, env) ==
  IF state = "confirmed" /\ env = "available" THEN "assigned" ELSE state

\* with self.env.cr.savepoint(): an exception undoes what the item did
rolled_back(state, reached) == state

\* _issue_material inside its savepoint: the move's state once the item is
\* through, and how the item ended
_issue_material(line, state, env) ==
  IF line.move_id = 0 THEN [state |-> state, result |-> "failed"]
  ELSE
    LET confirmed == _action_confirm(state)
        reserved == IF confirmed # "assigned"
                    THEN _action_assign(confirmed,
                           IF env = "exit_error" THEN "available" ELSE env)
                    ELSE confirmed
    IN IF env = "error"
       THEN [state |-> rolled_back(state, confirmed), result |-> "raised"]
       ELSE IF env = "exit_error"
         THEN [state |-> rolled_back(state, reserved),
               result |-> IF reserved = "assigned" THEN "issued_raised"
                          ELSE "failed_raised"]
       ELSE IF reserved = "assigned"
         THEN [state |-> "done", result |-> "issued"]
         ELSE [state |-> reserved, result |-> "failed"]

\* how often an item that ended with result is counted as issued or
\* completed: the counter is incremented inside the savepoint block
counted_done(result) ==
  IF result \in {"issued", "completed", "issued_raised", "completed_raised"}
  THEN 1 ELSE 0

\* how often it is counted as failed, with one entry in errors each time:
\* once when the call returned False, once in the except clause around the
\* savepoint block
counted_failed(result) ==
  CASE result \in {"issued", "completed"} -> 0
    [] result \in {"failed", "raised", "issued_raised", "completed_raised"} -> 1
    [] result = "failed_raised" -> 2

\* the loop over self.material_line_ids from line i on
RECURSIVE process_materials(_, _, _, _)
process_materials(lines, i, env, acc) ==
  IF i > Len(lines) THEN acc
  ELSE
    LET line == lines[i]
    IN IF line.qty_to_issue > 0
       THEN LET r == _issue_material(line, acc.moves[line.move_id], env[i])
            IN process_materials(lines, i + 1, env,
                 [moves |-> [acc.moves EXCEPT ![line.move_id] = r.state],
                  materials_issued |->
                    acc.materials_issued + counted_done(r.result),
                  materials_failed |->
                    acc.materials_failed + counted_failed(r.result),
                  errors |-> acc.errors + counted_failed(r.result),
                  results |-> Append(acc.results, r.result)])
       ELSE process_materials(lines, i + 1, env,
              [acc EXCEPT !.results = Append(@, "skipped")])

\* button_start(): a work order that is finished or cancelled stays as it is
button_start(state) ==
  IF state \in {"pending", "ready", "waiting"} THEN "progress" ELSE state

\* _complete_operation inside its savepoint
_complete_operation(line, wo, env) ==
  IF line.workorder_id = 0 THEN [workorder |-> wo, result |-> "failed"]
  ELSE
    LET started == button_start(wo.state)
        touched == [wo EXCEPT
                      !.state = started,
                      !.qty_producing = IF @ = 0 THEN line.qty_to_produce ELSE @,
                      !.productivity = IF line.duration_hours > 0 THEN @ + 1 ELSE @]
    IN IF env = "error"
       THEN [workorder |-> rolled_back(wo, touched), result |-> "raised"]
       ELSE IF env = "exit_error"
         THEN [workorder |-> rolled_back(wo, touched),
               result |-> IF started \in {"progress", "to_close"}
                          THEN "completed_raised" ELSE "failed_raised"]
       ELSE IF started \in {"progress", "to_close"}
         THEN [workorder |-> [touched EXCEPT !.state = "done"],
               result |-> "completed"]
         ELSE [workorder |-> touched, result |-> "failed"]

\* the loop over self.operation_line_ids from line i on
RECURSIVE process_operations(_, _, _, _)
process_operations(lines, i, env, acc) ==
  IF i > Len(lines) THEN acc
  ELSE
    LET line == lines[i]
    IN IF line.state \notin {"done", "cancel"}
       THEN LET r == _complete_operation(line, acc.workorders[line.workorder_id],
                                         env[i])
            IN process_operations(lines, i + 1, env,
                 [workorders |->
                    [acc.workorders EXCEPT ![line.workorder_id] = r.workorder],
                  operations_completed |->
                    acc.operations_completed + counted_done(r.result),
                  operations_failed |->
                    acc.operations_failed + counted_failed(r.result),
                  errors |-> acc.errors + counted_failed(r.result),
                  results |-> Append(acc.results, r.result)])
       ELSE process_operations(lines, i + 1, env,
              [acc EXCEPT !.results = Append(@, "skipped")])

\* notification_type of the returned action
notification_type(materials_issued, operations_completed, errors) ==
  IF materials_issued > 0 \/ operations_completed > 0
  THEN (IF errors = 0 THEN "success" ELSE "warning")
  ELSE "warning"

(* ---------------- work.order.process.wizard: actions ------------------ *)

processRest ==
  <<project, pricings, plannings, executions, productions, wizards, stateBefore,
    estimationVars,
    permissionVars>>

\* the raw-material moves of the selected production and its work order, if
\* it has one, as the wizard finds them
InitProcess ==
  /\ project = [name |-> ProjectName, state |-> "draft",
                auto_update_state |-> TRUE, messages |-> 0]
  /\ pricings = EmptyBag
  /\ plannings = EmptyBag
  /\ executions = EmptyBag
  /\ productions = EmptyBag
  /\ wizards = EmptyBag
  /\ lastOp = "init"
  /\ outcome = "returned"
  /\ stateBefore = "draft"
  /\ moves \in UNION {[1..k -> {"draft", "assigned"}] : k \in 0..MaxMoves}
  /\ workorders \in {<<>>} \cup {<<wo>> : wo \in [state : {"ready", "progress"},
                                                    qty_producing : {0},
                                                    productivity : {0},
                                                    duration_expected : {0, 60}]}
  /\ processWizard = NoWizard
  /\ request = Idle
  /\ report = NoReport
  /\ before = [moves |-> moves, workorders |-> workorders]
  /\ NoEstimation
  /\ NoPermissions

\* the material lines default_get collects from move i on
RECURSIVE material_lines(_, _)
material_lines(i, qty_available) ==
  IF i > Len(moves) THEN <<>>
  ELSE IF moves[i] \notin {"done", "cancel"}
    THEN <<[move_id |-> i,
            qty_to_issue |-> IF 1 < qty_available[i] THEN 1 ELSE qty_available[i]]>>
         \o material_lines(i + 1, qty_available)
    ELSE material_lines(i + 1, qty_available)

\* the operation lines default_get collects from work order j on
RECURSIVE operation_lines(_)
operation_lines(j) ==
  IF j > Len(workorders) THEN <<>>
  ELSE IF workorders[j].state \notin {"done", "cancel"}
    THEN <<[workorder_id |-> j, qty_to_produce |-> 1,
            duration_hours |-> workorders[j].duration_expected \div 60,
            state |-> workorders[j].state]>>
         \o operation_lines(j + 1)
    ELSE operation_lines(j + 1)

\* default_get: the wizard opens on the pending moves and work orders;
\* every move requires one unit, qty_available is the stock on hand
default_get ==
  /\ request.pc = "idle"
  /\ \E qty_available \in [1..Len(moves) -> 0..1] :
       processWizard' = [open |-> TRUE,
                         material_line_ids |-> material_lines(1, qty_available),
                         operation_line_ids |-> operation_lines(1)]
  /\ lastOp' = "default_get"
  /\ outcome' = "returned"
  /\ UNCHANGED <<moves, workorders, request, report, before, processRest>>

\* action_process_all up to and including self.env.cr.commit()
action_process_all_materials ==
  /\ request.pc = "idle"
  /\ processWizard.open
  /\ \A j \in DOMAIN workorders : workorders[j].productivity < MaxProductivity
  /\ \E env \in [1..Len(processWizard.material_line_ids) -> MaterialEnv] :
       LET acc == process_materials(processWizard.material_line_ids, 1, env,
                    [moves |-> moves, materials_issued |-> 0,
                     materials_failed |-> 0, errors |-> 0, results |-> <<>>])
       IN /\ moves' = acc.moves
          /\ request' = [pc |-> "operations",
                         materials_issued |-> acc.materials_issued,
                         materials_failed |-> acc.materials_failed,
                         errors |-> acc.errors,
                         material_results |-> acc.results]
  /\ before' = [moves |-> moves, workorders |-> workorders]
  /\ report' = NoReport
  /\ lastOp' = "action_process_all"
  /\ outcome' = "running"
  /\ UNCHANGED <<workorders, processWizard, processRest>>

\* action_process_all from the commit on: the operations, then the report
action_process_all_operations ==
  /\ request.pc = "operations"
  /\ \E env \in [1..Len(processWizard.operation_line_ids) -> OperationEnv] :
       LET acc == process_operations(processWizard.operation_line_ids, 1, env,
                    [workorders |-> workorders, operations_completed |-> 0,
                     operations_failed |-> 0, errors |-> request.errors,
                     results |-> <<>>])
       IN /\ workorders' = acc.workorders
          /\ report' = [materials_issued |-> request.materials_issued,
                        materials_failed |-> request.materials_failed,
                        operations_completed |-> acc.operations_completed,
                        operations_failed |-> acc.operations_failed,
                        errors |-> acc.errors,
                        material_results |-> request.material_results,
                        operation_results |-> acc.results,
                        type |-> notification_type(request.materials_issued,
                                                   acc.operations_completed,
                                                   acc.errors)]
  /\ request' = Idle
  /\ lastOp' = "action_process_all"
  /\ outcome' = "returned"
  /\ UNCHANGED <<moves, processWizard, before, processRest>>

\* an unhandled error after the commit: the request's transaction is rolled
\* back, which undoes what was done since the commit
request_aborted ==
  /\ request.pc = "operations"
  /\ request' = Idle
  /\ report' = NoReport
  /\ lastOp' = "action_process_all"
  /\ outcome' = "raised"
  /\ UNCHANGED <<moves, workorders, processWizard, before, processRest>>

NextProcess ==
  \/ default_get
  \/ action_process_all_materials
  \/ action_process_all_operations
  \/ request_aborted

SpecProcess == InitProcess /\ [][NextProcess]_vars

(* -------------------- properties of bulk processing ------------------- *)

\* C9: an action method is all-or-nothing: nothing it did is persisted
\* before it returns, and nothing persists when it ends with an unhandled
\* error
C9_AllOrNothing ==
  outcome \in {"running", "raised"} =>
    /\ moves = before.moves
    /\ workorders = before.workorders

\* C10: when action_process_all has returned its report, every item that
\* failed is as it was before the call, and every item that went through
\* keeps its effects
C10_FailedItemUndone ==
  (lastOp = "action_process_all" /\ outcome = "returned") =>
    /\ \A i \in DOMAIN processWizard.material_line_ids :
         LET m == processWizard.material_line_ids[i].move_id
         IN /\ report.material_results[i] \in {"failed", "raised"}
                 => moves[m] = before.moves[m]
            /\ report.material_results[i] = "issued" => moves[m] = "done"
    /\ \A i \in DOMAIN processWizard.operation_line_ids :
         LET w == processWizard.operation_line_ids[i].workorder_id
         IN /\ report.operation_results[i] \in {"failed", "raised"}
                 => workorders[w] = before.workorders[w]
            /\ report.operation_results[i] = "completed"
                 => workorders[w].state = "done"

\* the material lines action_process_all has to issue, and the operation
\* lines it has to complete
MaterialsToIssue ==
  {i \in DOMAIN processWizard.material_line_ids :
     processWizard.material_line_ids[i].qty_to_issue > 0}

OperationsToComplete ==
  {i \in DOMAIN processWizard.operation_line_ids :
     processWizard.operation_line_ids[i].state \notin {"done", "cancel"}}

\* C29: in action_process_all the material lines are all processed before
\* any operation line; every material line with qty_to_issue > 0 is counted
\* exactly once, as issued or as failed, and every operation line not done
\* or cancelled exactly once, as completed or as failed; the error entries
\* are as many as the failed materials and operations together; and the
\* notification type is success only when something was processed and no
\* error was recorded
C29_CountedExactlyOnce ==
  /\ (lastOp = "action_process_all" /\ outcome = "running") =>
       /\ workorders = before.workorders
       /\ Len(request.material_results) = Len(processWizard.material_line_ids)
  /\ (lastOp = "action_process_all" /\ outcome = "returned") =>
       /\ report.materials_issued + report.materials_failed
            = Cardinality(MaterialsToIssue)
       /\ report.operations_completed + report.operations_failed
            = Cardinality(OperationsToComplete)
       /\ report.errors = report.materials_failed + report.operations_failed
       /\ report.type = "success" =>
            /\ report.materials_issued + report.operations_completed > 0
            /\ report.errors = 0

(* ============ cost estimation workbook: export and import ============= *)

\* at most this many product lines on the project
MaxProductLines == 2

\* at most this many imports that are not previews are followed
MaxImports == 2

\* Python's None and False, and a blank worksheet cell as openpyxl reads it
None == [none |-> TRUE]

\* a string: its letters in lower case, how they are cased, and whether it
\* has leading or trailing white space
Text(s, case) == [s |-> s, case |-> case, pad |-> FALSE]

EmptyText == Text("", "lower")

\* str.strip()
strip(x) == IF x.s = "" THEN EmptyText ELSE [x EXCEPT !.pad = FALSE]

\* str.lower()
lower(x) == IF x.s = "" THEN x ELSE [x EXCEPT !.case = "lower"]

\* str.upper()
upper(x) == IF x.s = "" THEN x ELSE [x EXCEPT !.case = "upper"]

\* the truth value of a string, None or False
truthy(x) == x # None /\ x # EmptyText

\* "x or ''"
or_empty(x) == IF truthy(x) THEN x ELSE EmptyText

\* a numeric worksheet cell
Number(n) == [v |-> n]

\* the product.product records a line can refer to: two have no internal
\* reference, two share a name up to letter case, one has a padded reference
Products ==
  { [default_code |-> Text("k1", "lower"), name |-> Text("bolt", "lower"),
     weight |-> 1],
    [default_code |-> None, name |-> Text("bolt", "mixed"), weight |-> 2],
    [default_code |-> [Text("k2", "lower") EXCEPT !.pad = TRUE],
     name |-> Text("nut", "lower"), weight |-> 1],
    [default_code |-> None, name |-> Text("nut", "lower"), weight |-> 2] }

\* a project.product.line as the onchange of its product fills it
ProjectProductLine(p) ==
  [product_id |-> p, weight |-> p.weight, cost_price |-> 0, sale_price |-> 0]

\* worksheet.write() of a string, read back by openpyxl: xlsxwriter writes
\* the empty string as a blank cell
written(x) == IF x = EmptyText THEN None ELSE x

\* the cell values of the worksheet row written for a product line; E_N is
\* the sum of the ten editable weights, P the cached value of the formula
data_row(l) ==
  [A |-> written(or_empty(l.product_id.default_code)),
   B |-> written(or_empty(l.product_id.name)),
   D |-> Number(l.weight),
   E_N |-> Number(0),
   P |-> Number(0),
   Q |-> Number(l.sale_price)]

\* the totals row: 'TOTAL' in column A, blank cells up to column Q
TotalRow ==
  [A |-> Text("total", "upper"), B |-> None, D |-> None, E_N |-> None,
   P |-> None, Q |-> None]

\* the rows below the header row of the 'Cost Estimation' sheet
data_rows(lines) == [i \in DOMAIN lines |-> data_row(lines[i])] \o <<TotalRow>>

\* a workbook: whether it has the sheet with the header row, and the rows
\* below that header
Workbook(rows) == [header |-> TRUE, rows |-> rows]

\* a workbook that was not generated from an estimation
ForeignWorkbook == [header |-> FALSE, rows |-> <<>>]

\* what the user types into one row's editable cells
EditChoices == {[E_N |-> 1, Q |-> 3], [E_N |-> 2, Q |-> 4]}

\* the row after the user's edit, recalculated by the spreadsheet program:
\* O = D * (E + ... + N), P = O
edited_row(r, e) ==
  [r EXCEPT !.E_N = Number(e.E_N), !.P = Number(r.D.v * e.E_N),
            !.Q = Number(e.Q)]

\* the workbooks a user can make of a generated one by editing editable cells
edited_workbooks(wb) ==
  LET n == Len(wb.rows) - 1
  IN { Workbook([i \in 1..n |-> edited_row(wb.rows[i], e[i])] \o <<TotalRow>>) :
         e \in [1..n -> EditChoices] }

\* "str(cell).strip() if cell else ''"
cell_text(c) == IF truthy(c) THEN strip(c) ELSE EmptyText

\* "float(cell)" guarded by "cell is not None": a number, or None
cell_float(c) == IF c # None THEN Number(c.v) ELSE None

\* the lines a filter keeps, in line order
filtered(lines, keep(_)) == {i \in DOMAIN lines : keep(lines[i])}

\* the last of the lines kept instead of the first
first_reversed(S) == CHOOSE i \in S : \A j \in S : i >= j

\* product_line[0]
first(S) == CHOOSE i \in S : \A j \in S : i <= j

\* the index of the line found, or 0 for False
_find_product_line(lines, product_code, product_name) ==
  LET by_code == filtered(lines, LAMBDA l :
                   /\ truthy(l.product_id.default_code)
                   /\ strip(l.product_id.default_code) = product_code)
      by_name == filtered(lines, LAMBDA l :
                   /\ truthy(l.product_id.name)
                   /\ strip(l.product_id.name) = product_name)
      by_lower == filtered(lines, LAMBDA l :
                   /\ truthy(l.product_id.name)
                   /\ lower(strip(l.product_id.name)) = lower(product_name))
  IN IF ~truthy(product_code) /\ ~truthy(product_name) THEN 0
     ELSE IF truthy(product_code) /\ by_code # {} THEN first(by_code)
     ELSE IF truthy(product_name) /\ by_name # {} THEN first(by_name)
     ELSE IF truthy(product_name) /\ by_lower # {} THEN first(by_lower)
     ELSE 0

\* product_line.write(update_vals) with the prices the row holds
write_prices(l, cost_price, sale_price) ==
  [l EXCEPT !.cost_price = IF cost_price # None THEN cost_price.v ELSE @,
            !.sale_price = IF sale_price # None THEN sale_price.v ELSE @]

\* the row loop of _execute_import from row i on; acc holds the lines and
\* the counters so far
RECURSIVE _execute_rows(_, _, _)
_execute_rows(rows, i, acc) ==
  IF i > Len(rows) \/ ~truthy(rows[i].A) THEN acc
  ELSE IF upper(strip(rows[i].A)) = Text("total", "upper") THEN acc
  ELSE
    LET product_code == cell_text(rows[i].A)
        product_name == cell_text(rows[i].B)
        cost_price == cell_float(rows[i].P)
        sale_price == cell_float(rows[i].Q)
        found == _find_product_line(acc.lines, product_code, product_name)
    IN IF ~truthy(product_code) /\ ~truthy(product_name)
       THEN _execute_rows(rows, i + 1,
              [acc EXCEPT !.skipped_count = @ + 1])
       ELSE IF found = 0
       THEN _execute_rows(rows, i + 1,
              [acc EXCEPT !.errors = @ + 1, !.error_rows = Append(@, i)])
       ELSE IF cost_price # None \/ sale_price # None
       THEN _execute_rows(rows, i + 1,
              [acc EXCEPT !.lines[found] = write_prices(@, cost_price, sale_price),
                          !.updated_count = @ + 1,
                          !.matched[i] = found])
       ELSE _execute_rows(rows, i + 1, acc)

\* "errors[:5]": the errors the summary text spells out
first_five(errors) == SubSeq(errors, 1, IF Len(errors) < 5 THEN Len(errors) ELSE 5)

\* a notification whose text leaves the errors out
import_notification_silent(acc) ==
  [type |-> IF acc.updated_count > 0 /\ acc.errors = 0 THEN "success"
            ELSE IF acc.updated_count > 0 THEN "warning" ELSE "danger",
   title |-> IF acc.updated_count > 0 THEN "Import Complete" ELSE "Import Failed",
   updated_count |-> acc.updated_count,
   errors |-> acc.errors,
   error_rows |-> <<>>,
   skipped_count |-> acc.skipped_count,
   matched |-> acc.matched]

\* the notification _execute_import returns; error_rows are the rows whose
\* "Product not found" message is in its text
import_notification(acc) ==
  [type |-> IF acc.updated_count > 0 /\ acc.errors = 0 THEN "success"
            ELSE IF acc.updated_count > 0 THEN "warning" ELSE "danger",
   title |-> IF acc.updated_count > 0 THEN "Import Complete" ELSE "Import Failed",
   updated_count |-> acc.updated_count,
   errors |-> acc.errors,
   error_rows |-> first_five(acc.error_rows),
   skipped_count |-> acc.skipped_count,
   matched |-> acc.matched]

\* the row loop of _preview_import over the first five data rows from row i
\* on: the numbers of matched and unmatched rows
RECURSIVE _preview_rows(_, _, _, _)
_preview_rows(rows, i, lines, acc) ==
  IF i > Len(rows) \/ i > 5 THEN acc
  ELSE IF ~truthy(rows[i].A) THEN _preview_rows(rows, i + 1, lines, acc)
  ELSE IF _find_product_line(lines, cell_text(rows[i].A), cell_text(rows[i].B)) # 0
  THEN _preview_rows(rows, i + 1, lines, [acc EXCEPT !.matched = @ + 1])
  ELSE _preview_rows(rows, i + 1, lines, [acc EXCEPT !.unmatched = @ + 1])

estimationRest ==
  <<pricings, plannings, executions, productions, wizards, stateBefore,
    moves, workorders, processWizard, request, permissionVars>>

InitExcel ==
  /\ project = [name |-> ProjectName, state |-> "draft",
                auto_update_state |-> TRUE, messages |-> 0]
  /\ pricings = EmptyBag
  /\ plannings = EmptyBag
  /\ executions = EmptyBag
  /\ productions = EmptyBag
  /\ wizards = EmptyBag
  /\ lastOp = "init"
  /\ outcome = "returned"
  /\ stateBefore = "draft"
  /\ moves = <<>>
  /\ workorders = <<>>
  /\ processWizard = NoWizard
  /\ request = Idle
  /\ report = NoReport
  /\ product_lines \in
       UNION {[1..n -> {ProjectProductLine(p) : p \in Products}] :
                n \in 0..MaxProductLines}
  /\ estimation = [state |-> "draft", excel_file |-> None,
                   last_update_date |-> 0]
  /\ importWizard = [open |-> FALSE]
  /\ NoPermissions
  /\ before = [product_lines |-> product_lines, estimation |-> estimation]

\* the estimation's button: one workbook per estimation is followed
action_generate_estimation_excel ==
  /\ estimation.excel_file = None
  /\ lastOp' = "action_generate_estimation_excel"
  /\ IF product_lines = <<>>
     THEN /\ outcome' = "raised"
          /\ UNCHANGED estimation
     ELSE /\ outcome' = "returned"
          /\ estimation' = [estimation EXCEPT
               !.excel_file = Workbook(data_rows(product_lines)),
               !.state = "in_progress"]
  /\ project' = Started(project)
  /\ UNCHANGED <<product_lines, importWizard, report, before, estimationRest>>

\* the product lines of two other projects: the first has a product this
\* project cannot have, the second a product whose internal reference is
\* the word total; both have this project's first product on their second line
OtherProjectLines ==
  LET bolt == [default_code |-> Text("k1", "lower"), name |-> Text("bolt", "lower"),
               weight |-> 1]
      widget == [default_code |-> Text("k9", "lower"),
                 name |-> Text("widget", "lower"), weight |-> 1]
      cap == [default_code |-> Text("total", "lower"), name |-> Text("cap", "lower"),
              weight |-> 1]
  IN {<<ProjectProductLine(widget), ProjectProductLine(bolt)>>,
      <<ProjectProductLine(cap), ProjectProductLine(bolt)>>}

\* the workbooks generated for those projects, edited
OtherWorkbooks ==
  {Workbook([i \in 1..Len(lines) |->
               edited_row(data_row(lines[i]), [E_N |-> 2, Q |-> 4])]
            \o <<TotalRow>>) : lines \in OtherProjectLines}

\* the files a user can upload (the field is required): a workbook of
\* another origin, a workbook generated for another project, the generated
\* workbook as downloaded, or the generated workbook edited
uploads ==
  {ForeignWorkbook} \cup OtherWorkbooks
    \cup (IF estimation.excel_file = None THEN {}
          ELSE {estimation.excel_file} \cup edited_workbooks(estimation.excel_file))

\* action_import_updated_prices opens the wizard; the user uploads a file
\* and sets the test mode
ImportWizardCreate ==
  /\ ~importWizard.open
  /\ \E file \in uploads, test_mode \in BOOLEAN :
       importWizard' = [open |-> TRUE, excel_file |-> file,
                        test_mode |-> test_mode, preview_data |-> None]
  /\ lastOp' = "import.wizard.create"
  /\ outcome' = "returned"
  /\ project' = Started(project)
  /\ UNCHANGED <<product_lines, estimation, report, before, estimationRest>>

\* the user switches the test mode of the open wizard
ImportWizardWrite ==
  /\ importWizard.open
  /\ importWizard' = [importWizard EXCEPT !.test_mode = ~@]
  /\ lastOp' = "import.wizard.write"
  /\ outcome' = "returned"
  /\ project' = Started(project)
  /\ UNCHANGED <<product_lines, estimation, report, before, estimationRest>>

\* the transient wizard is closed and vacuumed
ImportWizardUnlink ==
  /\ importWizard.open
  /\ importWizard' = [open |-> FALSE]
  /\ lastOp' = "import.wizard.unlink"
  /\ outcome' = "returned"
  /\ project' = Started(project)
  /\ UNCHANGED <<product_lines, estimation, report, before, estimationRest>>

\* a preview that also stamps the estimation, as the import proper does
_preview_import_stamping ==
  /\ importWizard' = [importWizard EXCEPT !.preview_data =
       _preview_rows(importWizard.excel_file.rows, 1, product_lines,
                     [matched |-> 0, unmatched |-> 0])]
  /\ estimation' = [estimation EXCEPT !.state = "completed"]
  /\ outcome' = "returned"
  /\ project' = Started(project)
  /\ UNCHANGED <<product_lines, report>>

_preview_import ==
  /\ importWizard' = [importWizard EXCEPT !.preview_data =
       _preview_rows(importWizard.excel_file.rows, 1, product_lines,
                     [matched |-> 0, unmatched |-> 0])]
  /\ outcome' = "returned"
  /\ project' = Started(project)
  /\ UNCHANGED <<product_lines, estimation, report>>

\* an import that records itself on the estimation only when it updated a
\* product line
_execute_import_when_updated ==
  LET rows == importWizard.excel_file.rows
      acc == _execute_rows(rows, 1,
               [lines |-> product_lines, updated_count |-> 0, errors |-> 0,
                error_rows |-> <<>>, skipped_count |-> 0,
                matched |-> [i \in DOMAIN rows |-> 0]])
  IN /\ product_lines' = acc.lines
     /\ estimation' = IF acc.updated_count > 0
                      THEN [excel_file |-> importWizard.excel_file,
                            last_update_date |-> estimation.last_update_date + 1,
                            state |-> "completed"]
                      ELSE estimation
     /\ project' = [project EXCEPT !.messages = 1]
     /\ report' = import_notification(acc)
     /\ outcome' = "returned"
     /\ UNCHANGED importWizard

\* _execute_import: the row loop, the write on the estimation, the message
\* on the project and the notification
_execute_import ==
  LET rows == importWizard.excel_file.rows
      acc == _execute_rows(rows, 1,
               [lines |-> product_lines, updated_count |-> 0, errors |-> 0,
                error_rows |-> <<>>, skipped_count |-> 0,
                matched |-> [i \in DOMAIN rows |-> 0]])
  IN /\ product_lines' = acc.lines
     /\ estimation' = [excel_file |-> importWizard.excel_file,
                       last_update_date |-> estimation.last_update_date + 1,
                       state |-> "completed"]
     /\ project' = [project EXCEPT !.messages = 1]
     /\ report' = import_notification(acc)
     /\ outcome' = "returned"
     /\ UNCHANGED importWizard

\* the wizard's button
action_import_prices ==
  /\ importWizard.open
  /\ importWizard.test_mode \/ estimation.last_update_date < MaxImports
  /\ lastOp' = "action_import_prices"
  /\ before' = [product_lines |-> product_lines, estimation |-> estimation]
  /\ IF importWizard.excel_file = None \/ ~importWizard.excel_file.header
     THEN /\ outcome' = "raised"
          /\ project' = Started(project)
          /\ UNCHANGED <<product_lines, estimation, importWizard, report>>
     ELSE IF importWizard.test_mode THEN _preview_import
     ELSE _execute_import
  /\ UNCHANGED estimationRest

NextExcel ==
  \/ action_generate_estimation_excel
  \/ ImportWizardCreate
  \/ ImportWizardWrite
  \/ ImportWizardUnlink
  \/ action_import_prices

SpecExcel == InitExcel /\ [][NextExcel]_vars

(* ---------------- properties of the workbook round trip --------------- *)

\* an import that was not a preview has returned
Imported ==
  /\ lastOp = "action_import_prices"
  /\ outcome = "returned"
  /\ ~importWizard.test_mode

\* C11: after an import of the generated workbook in which only editable
\* cells were changed, every product line, with or without an internal
\* reference, was matched by the row written from it and holds that row's
\* cost (column P) and sale price (column Q)
C11_RoundTrip ==
  (Imported /\ importWizard.excel_file \notin OtherWorkbooks) =>
    \A i \in DOMAIN product_lines :
      /\ report.matched[i] = i
      /\ product_lines[i].cost_price = importWizard.excel_file.rows[i].P.v
      /\ product_lines[i].sale_price = importWizard.excel_file.rows[i].Q.v

\* C16: in test mode action_import_prices changes no product line and
\* nothing of the estimation, and posts nothing on the project; it only
\* fills the wizard's preview
C16_TestModeChangesNothing ==
  (lastOp = "action_import_prices" /\ importWizard.test_mode) =>
    /\ product_lines = before.product_lines
    /\ estimation = before.estimation
    /\ project.messages = 0

\* a preview of an edited workbook whose rows match product lines whose
\* prices differ from the rows'
C16_Witness ==
  /\ lastOp = "action_import_prices"
  /\ outcome = "returned"
  /\ importWizard.test_mode
  /\ importWizard.preview_data # None
  /\ importWizard.preview_data.matched > 0
  /\ estimation.state = "in_progress"
  /\ \E i \in DOMAIN product_lines :
       /\ truthy(product_lines[i].product_id.default_code)
       /\ importWizard.excel_file.rows[i].Q.v # product_lines[i].sale_price

\* the first row at which the loop stops when column A is compared with
\* TOTAL as it stands; one past the last row when there is none
StopRowLiteral(rows) ==
  LET stops == {i \in DOMAIN rows :
                  ~truthy(rows[i].A) \/ rows[i].A = Text("total", "upper")}
  IN IF stops = {} THEN Len(rows) + 1
     ELSE CHOOSE i \in stops : \A j \in stops : i <= j

\* the same when column A is stripped and upper-cased before the comparison
StopRowFolded(rows) ==
  LET stops == {i \in DOMAIN rows :
                  \/ ~truthy(rows[i].A)
                  \/ upper(strip(rows[i].A)) = Text("total", "upper")}
  IN IF stops = {} THEN Len(rows) + 1
     ELSE CHOOSE i \in stops : \A j \in stops : i <= j

\* the product line a row finds among the lines as they were before the import
RowFinds(rows, i) ==
  _find_product_line(before.product_lines, cell_text(rows[i].A), cell_text(rows[i].B))

\* the rows before stop that name a product and find no product line, in order
RECURSIVE UnmatchedRows(_, _, _)
UnmatchedRows(rows, i, stop) ==
  IF i >= stop THEN <<>>
  ELSE (IF RowFinds(rows, i) = 0
           /\ (truthy(cell_text(rows[i].A)) \/ truthy(cell_text(rows[i].B)))
        THEN <<i>> ELSE <<>>) \o UnmatchedRows(rows, i + 1, stop)

\* the import worked through the rows before stop, each on its own, and
\* touched no row from stop on
ProcessedUpTo(stop) ==
  LET rows == importWizard.excel_file.rows
      unmatched == UnmatchedRows(rows, 1, stop)
  IN /\ report.errors = Len(unmatched)
     /\ report.error_rows = first_five(unmatched)
     /\ \A i \in DOMAIN rows :
          IF i < stop
          THEN (RowFinds(rows, i) # 0
                  /\ (cell_float(rows[i].P) # None \/ cell_float(rows[i].Q) # None))
                 => report.matched[i] = RowFinds(rows, i)
          ELSE report.matched[i] = 0
     /\ \A j \in DOMAIN product_lines :
          (\A i \in DOMAIN rows : i < stop => RowFinds(rows, i) # j)
            => product_lines[j] = before.product_lines[j]

RowCodes == {EmptyText, Text("k1", "lower"), Text("k2", "lower"), Text("k9", "lower")}

RowNames ==
  {EmptyText, Text("bolt", "lower"), Text("bolt", "mixed"), Text("nut", "upper")}

InitFind ==
  /\ project = [name |-> ProjectName, state |-> "draft",
                auto_update_state |-> TRUE, messages |-> 0]
  /\ pricings = EmptyBag
  /\ plannings = EmptyBag
  /\ executions = EmptyBag
  /\ productions = EmptyBag
  /\ wizards = EmptyBag
  /\ lastOp = "init"
  /\ outcome = "returned"
  /\ stateBefore = "draft"
  /\ NoProcess
  /\ product_lines \in
       UNION {[1..n -> {ProjectProductLine(p) : p \in Products}] :
                n \in 0..MaxProductLines}
  /\ estimation = [state |-> "draft", excel_file |-> None,
                   last_update_date |-> 0]
  /\ importWizard = [open |-> TRUE, excel_file |-> ForeignWorkbook,
                     test_mode |-> TRUE, preview_data |-> None]
  /\ NoPermissions

\* a row loop calls _find_product_line for a row's code and name
FindProductLine ==
  /\ \E product_code \in RowCodes, product_name \in RowNames :
       report' = [type |-> "find", product_code |-> product_code,
                  product_name |-> product_name,
                  found |-> _find_product_line(product_lines, product_code,
                                               product_name)]
  /\ lastOp' = "_find_product_line"
  /\ outcome' = "returned"
  /\ UNCHANGED <<project, before, estimationVars, estimationRest>>

NextFind == FindProductLine

SpecFind == InitFind /\ [][NextFind]_vars

\* line i matches the row handed over by strategy s: 1 exact code, 2 exact
\* name, 3 name without regard to letter case
Matches(s, i) ==
  LET product == product_lines[i].product_id
  IN CASE s = 1 -> /\ truthy(report.product_code)
                   /\ truthy(product.default_code)
                   /\ strip(product.default_code) = report.product_code
       [] s = 2 -> /\ truthy(report.product_name)
                   /\ truthy(product.name)
                   /\ strip(product.name) = report.product_name
       [] OTHER -> /\ truthy(report.product_name)
                   /\ truthy(product.name)
                   /\ lower(strip(product.name)) = lower(report.product_name)

\* C20: _find_product_line returns a line matched by the first of the
\* strategies exact code, exact name, case-insensitive name that matches any
\* line, and among the lines that strategy matches the first in line order;
\* it returns nothing when no strategy matches
C20_FirstStrategyFirstLine ==
  lastOp = "_find_product_line" =>
    LET hits(s) == {i \in DOMAIN product_lines : Matches(s, i)}
        deciding == {s \in 1..3 : hits(s) # {} /\ \A t \in 1..(s - 1) : hits(t) = {}}
    IN IF deciding = {} THEN report.found = 0
       ELSE \A s \in deciding :
              /\ report.found \in hits(s)
              /\ \A j \in hits(s) : report.found <= j

\* C20 happens: the second line was returned on its exact name although the
\* first line matches the name without regard to case, the code handed over
\* matching no line
C20_Witness ==
  /\ lastOp = "_find_product_line"
  /\ report.found = 2
  /\ truthy(report.product_code)
  /\ Matches(3, 1) /\ ~Matches(2, 1)
  /\ Matches(2, 2)
  /\ \A i \in DOMAIN product_lines : ~Matches(1, i)

(* ================= project.definition: start and end date ============= *)

\* dates are days 1..MaxDate; 0 stands for a date that is not set
MaxDate == 3

\* a comparison that rejects the dates in the right order
_check_dates_reversed(record) ==
  record.end_date # 0 /\ record.start_date # 0
    /\ record.end_date > record.start_date

\* TRUE when the constraint raises its ValidationError for the record
_check_dates(record) ==
  record.end_date # 0 /\ record.start_date # 0
    /\ record.end_date < record.start_date

\* TRUE when a required date is missing from the record
required_missing(record) == record.start_date = 0 \/ record.end_date = 0

\* the values a create or write can carry for the two dates: a field that is
\* not in vals keeps its value
DateVals ==
  [fields : {{"start_date"}, {"end_date"}, {"start_date", "end_date"}},
   start_date : 0..MaxDate, end_date : 0..MaxDate]

\* the record with the values assigned
assigned(record, vals) ==
  [record EXCEPT
     !.start_date = IF "start_date" \in vals.fields THEN vals.start_date ELSE @,
     !.end_date = IF "end_date" \in vals.fields THEN vals.end_date ELSE @]

datesRest ==
  <<pricings, plannings, executions, productions, wizards, stateBefore,
    moves, workorders, processWizard, request, report, estimationVars,
    permissionVars>>

\* no project is stored yet
InitDates ==
  /\ project = [name |-> ProjectName, state |-> "draft",
                auto_update_state |-> TRUE, messages |-> 0,
                stored |-> FALSE, start_date |-> 0, end_date |-> 0]
  /\ pricings = EmptyBag
  /\ plannings = EmptyBag
  /\ executions = EmptyBag
  /\ productions = EmptyBag
  /\ wizards = EmptyBag
  /\ lastOp = "init"
  /\ outcome = "returned"
  /\ stateBefore = "draft"
  /\ moves = <<>>
  /\ workorders = <<>>
  /\ processWizard = NoWizard
  /\ request = Idle
  /\ report = NoReport
  /\ before = [project |-> project, vals |-> <<>>]
  /\ NoEstimation
  /\ NoPermissions

\* create(vals): start_date defaults to today when vals does not carry it
ProjectCreate ==
  /\ ~project.stored
  /\ \E vals \in DateVals, today \in 1..MaxDate :
       LET record == assigned([project EXCEPT !.stored = TRUE,
                                              !.start_date = today], vals)
       IN /\ before' = [project |-> project, vals |-> vals]
          /\ IF required_missing(record) \/ _check_dates(record)
             THEN outcome' = "raised" /\ UNCHANGED project
             ELSE outcome' = "returned" /\ project' = record
  /\ lastOp' = "project.create"
  /\ UNCHANGED datesRest

\* write(vals)
ProjectWrite ==
  /\ project.stored
  /\ \E vals \in DateVals :
       LET record == assigned(project, vals)
       IN /\ before' = [project |-> project, vals |-> vals]
          /\ IF required_missing(record) \/ _check_dates(record)
             THEN outcome' = "raised" /\ UNCHANGED project
             ELSE outcome' = "returned" /\ project' = record
  /\ lastOp' = "project.write"
  /\ UNCHANGED datesRest

\* unlink()
ProjectUnlink ==
  /\ project.stored
  /\ project' = [project EXCEPT !.stored = FALSE, !.start_date = 0,
                                !.end_date = 0]
  /\ before' = [project |-> project, vals |-> <<>>]
  /\ lastOp' = "project.unlink"
  /\ outcome' = "returned"
  /\ UNCHANGED datesRest

NextDates ==
  \/ ProjectCreate
  \/ ProjectWrite
  \/ ProjectUnlink

SpecDates == InitDates /\ [][NextDates]_vars

(* ---------------------- properties of the dates ----------------------- *)

\* C15: no stored project has an end date earlier than its start date; a
\* create or write whose values would give end_date < start_date raises and
\* leaves the stored dates as they were
C15_EndNotBeforeStart ==
  /\ project.stored => project.end_date >= project.start_date
  /\ (/\ lastOp \in {"project.create", "project.write"}
      /\ "end_date" \in before.vals.fields
      /\ before.vals.end_date # 0
      /\ before.vals.end_date <
           (IF "start_date" \in before.vals.fields
            THEN before.vals.start_date ELSE before.project.start_date))
       => /\ outcome = "raised"
          /\ project = before.project

\* C15 happens: a write that moved only the start date past the stored end
\* date was rejected and the stored dates are still in order
C15_Witness ==
  /\ lastOp = "project.write"
  /\ outcome = "raised"
  /\ before.vals.fields = {"start_date"}
  /\ before.vals.start_date > before.project.end_date
  /\ project.stored
  /\ project.end_date > project.start_date

(***************************************************************************)
(* Automatic issue of raw materials: _auto_issue_materials of an           *)
(* execution, for one production order.  The platform's reservation and    *)
(* validation calls are the environment.                                   *)
(***************************************************************************)

\* at most this many raw-material moves on the production order
MaxRawMoves == 2

\* a raw-material move: its state and its move lines (none, lines without a
\* quantity, lines with a reserved quantity)
RawMoves ==
  { [state |-> "confirmed", move_line_ids |-> "none"],
    [state |-> "assigned", move_line_ids |-> "none"],
    [state |-> "assigned", move_line_ids |-> "empty"],
    [state |-> "assigned", move_line_ids |-> "reserved"],
    [state |-> "done", move_line_ids |-> "reserved"],
    [state |-> "cancel", move_line_ids |-> "none"] }

\* what the platform does for one move: the first and a repeated
\* move._action_assign() (reserves, finds nothing, raises), whether
\* product.qty_available covers the move, and move._action_done(); a choice
\* the code never gets to look at is left at one value
MoveEnv ==
  { e \in [reserve : {"assigned", "waiting", "raises"},
           available : BOOLEAN,
           again : {"assigned", "waiting", "raises"},
           done : {"ok", "raises"}] :
      /\ (e.reserve = "assigned" \/ ~e.available) => e.again = "waiting"
      /\ (e.reserve # "assigned" /\ e.again # "assigned") => e.done = "ok"
      /\ e.reserve = "assigned" => ~e.available }

\* what the platform does for the production order's own calls
ProductionEnv == {"ok", "confirm_raises", "assign_raises"}

\* stock.move._action_assign() that does not raise: a confirmed move gets
\* reserved move lines when stock is found
reserved_move(move, found) ==
  IF move.state = "confirmed" /\ found = "assigned"
  THEN [state |-> "assigned", move_line_ids |-> "reserved"]
  ELSE move

\* production.action_assign() that does not raise: reserves every raw move
action_assign(raw, env) ==
  [i \in DOMAIN raw |-> reserved_move(raw[i], env[i].reserve)]

\* production.action_confirm() that does not raise
action_confirm(production) == [production EXCEPT !.state = "confirmed"]

\* "m.state not in ('done', 'cancel')"
pending(move) == move.state \notin {"done", "cancel"}

\* a loop body that counts a move whose validation raised
issue_move_counting_raised(move, e) ==
  LET once == IF move.state # "assigned" /\ e.reserve # "raises"
               THEN reserved_move(move, e.reserve) ELSE move
      logged1 == IF move.state # "assigned" /\ e.reserve = "raises" THEN 1 ELSE 0
  IN IF once.state = "assigned"
     THEN IF once.move_line_ids = "none" /\ e.reserve = "raises"
          THEN [move |-> once, issued |-> 0, logged |-> logged1 + 1]
          ELSE IF once.move_line_ids = "reserved"
          THEN IF e.done = "raises"
               THEN [move |-> once, issued |-> 1, logged |-> logged1 + 1]
               ELSE [move |-> [once EXCEPT !.state = "done"], issued |-> 1,
                     logged |-> logged1]
          ELSE [move |-> once, issued |-> 0, logged |-> logged1]
     ELSE IF e.available
     THEN IF e.again = "raises"
          THEN [move |-> once, issued |-> 0, logged |-> logged1 + 1]
          ELSE LET twice == reserved_move(once, e.again)
               IN IF twice.state = "assigned" /\ twice.move_line_ids # "none"
                  THEN IF e.done = "raises"
                       THEN [move |-> twice, issued |-> 1, logged |-> logged1 + 1]
                       ELSE [move |-> [twice EXCEPT !.state = "done"],
                             issued |-> 1, logged |-> logged1]
                  ELSE [move |-> twice, issued |-> 0, logged |-> logged1]
     ELSE [move |-> once, issued |-> 0, logged |-> logged1]

\* the body of "for move in raw_moves" for a pending move: the move
\* afterwards, whether it was counted as issued, and how many warnings
\* were logged
issue_move(move, e) ==
  LET once == IF move.state # "assigned" /\ e.reserve # "raises"
               THEN reserved_move(move, e.reserve) ELSE move
      logged1 == IF move.state # "assigned" /\ e.reserve = "raises" THEN 1 ELSE 0
  IN IF once.state = "assigned"
     THEN \* a move without move lines is reserved once more; the quantities
          \* of the move lines are left as they are
          IF once.move_line_ids = "none" /\ e.reserve = "raises"
          THEN [move |-> once, issued |-> 0, logged |-> logged1 + 1]
          ELSE IF once.move_line_ids = "reserved"
          THEN IF e.done = "raises"
               THEN [move |-> once, issued |-> 0, logged |-> logged1 + 1]
               ELSE [move |-> [once EXCEPT !.state = "done"], issued |-> 1,
                     logged |-> logged1]
          ELSE [move |-> once, issued |-> 0, logged |-> logged1]
     ELSE IF e.available
     THEN IF e.again = "raises"
          THEN [move |-> once, issued |-> 0, logged |-> logged1 + 1]
          ELSE LET twice == reserved_move(once, e.again)
               IN IF twice.state = "assigned" /\ twice.move_line_ids # "none"
                  THEN IF e.done = "raises"
                       THEN [move |-> twice, issued |-> 0, logged |-> logged1 + 1]
                       ELSE [move |-> [twice EXCEPT !.state = "done"],
                             issued |-> 1, logged |-> logged1]
                  ELSE [move |-> twice, issued |-> 0, logged |-> logged1]
     ELSE [move |-> once, issued |-> 0, logged |-> logged1]

\* the loop over raw_moves from move i on; acc holds the moves, the counter,
\* the warnings logged and the moves the loop has reached
RECURSIVE issue_moves(_, _, _)
issue_moves(i, env, acc) ==
  IF i > Len(acc.moves) THEN acc
  ELSE IF ~pending(acc.moves[i]) THEN issue_moves(i + 1, env, acc)
  ELSE LET r == issue_move(acc.moves[i], env[i])
       IN issue_moves(i + 1, env,
            [moves |-> [acc.moves EXCEPT ![i] = r.move],
             issued_count |-> acc.issued_count + r.issued,
             logged |-> acc.logged + r.logged,
             attempted |-> acc.attempted \cup {i}])

\* the production order _auto_issue_materials is called for
the_production == CHOOSE production \in BagToSet(productions) : TRUE

issueRest ==
  <<project, pricings, plannings, executions, wizards, stateBefore, workorders,
    processWizard, request, estimationVars,
    permissionVars>>

\* one production order with its raw-material moves; a draft order's moves
\* are not reserved yet
InitIssue ==
  /\ project = [name |-> ProjectName, state |-> "draft",
                auto_update_state |-> TRUE, messages |-> 0]
  /\ pricings = EmptyBag
  /\ plannings = EmptyBag
  /\ executions = EmptyBag
  /\ \E state \in {"draft", "confirmed", "progress", "done"} :
       productions = SetToBag({[state |-> state]})
  /\ wizards = EmptyBag
  /\ lastOp = "init"
  /\ outcome = "returned"
  /\ stateBefore = "draft"
  /\ moves \in UNION {[1..k -> RawMoves] : k \in 0..MaxRawMoves}
  /\ the_production.state = "draft"
       => \A i \in DOMAIN moves : moves[i].state \in {"confirmed", "cancel"}
  /\ the_production.state = "done"
       => \A i \in DOMAIN moves : moves[i].state \in {"done", "cancel"}
  /\ workorders = <<>>
  /\ processWizard = NoWizard
  /\ request = Idle
  /\ report = NoReport
  /\ before = [moves |-> moves, production |-> the_production]
  /\ NoEstimation
  /\ NoPermissions

\* _auto_issue_materials(production), called once
_auto_issue_materials ==
  /\ lastOp = "init"
  /\ \E production_env \in ProductionEnv, env \in [DOMAIN moves -> MoveEnv] :
       LET production == the_production
           confirmed_production ==
             IF production.state = "draft" THEN action_confirm(production)
             ELSE production
           raw_moves ==
             IF confirmed_production.state \in {"confirmed", "progress", "to_close"}
                /\ production_env # "assign_raises"
             THEN action_assign(moves, env) ELSE moves
           total_count == Cardinality({i \in DOMAIN raw_moves : pending(raw_moves[i])})
           acc == issue_moves(1, env,
                    [moves |-> raw_moves, issued_count |-> 0, logged |-> 0,
                     attempted |-> {}])
       IN /\ lastOp' = "_auto_issue_materials"
          /\ outcome' = "returned"
          /\ before' = [moves |-> moves, production |-> production]
          /\ IF production.state = "draft" /\ production_env = "confirm_raises"
             THEN /\ report' = [type |-> "issue", issued |-> 0, total |-> 0,
                                logged |-> 1, attempted |-> {}]
                  /\ UNCHANGED <<moves, productions>>
             ELSE IF total_count = 0
             THEN /\ report' = [type |-> "issue", issued |-> 0, total |-> 0,
                                logged |-> IF raw_moves = moves /\ production_env = "assign_raises"
                                              /\ confirmed_production.state # "done"
                                           THEN 1 ELSE 0,
                                attempted |-> {}]
                  /\ moves' = raw_moves
                  /\ productions' = SetToBag({confirmed_production})
             ELSE /\ report' = [type |-> "issue", issued |-> acc.issued_count,
                                total |-> total_count,
                                logged |-> acc.logged
                                  + (IF production_env = "assign_raises"
                                        /\ confirmed_production.state # "done"
                                     THEN 1 ELSE 0),
                                attempted |-> acc.attempted]
                  /\ moves' = acc.moves
                  /\ productions' = SetToBag({confirmed_production})
  /\ UNCHANGED issueRest

NextIssue == _auto_issue_materials

SpecIssue == InitIssue /\ [][NextIssue]_vars

(* ----------------- properties of the automatic issue ------------------ *)

\* the raw moves that were not done or cancelled when the call began
PendingBefore == {i \in DOMAIN before.moves : pending(before.moves[i])}

\* the call returned, every pending move was attempted, and the counters
\* say what happened to the moves
IssueCounted ==
  /\ outcome = "returned"
  /\ report.attempted = PendingBefore
  /\ report.total = Cardinality(PendingBefore)
  /\ report.issued
       = Cardinality({i \in PendingBefore : moves[i].state = "done"})
  /\ 0 <= report.issued
  /\ report.issued <= report.total

WorkOrderExecutionCreate ==
  /\ executions = EmptyBag
  /\ executions' = BagAdd(executions, [state |-> "draft"])
  /\ project' = trigger_update(Started(project), pricings, plannings,
                               executions', productions)
  /\ Ran("execution.create")
  /\ UNCHANGED <<pricings, plannings, productions, lifecycleRest>>

\* work.order.execution action_done(): write({'state': 'done'}), which
\* updates the project
execution_action_done ==
  \E ex \in BagToSet(executions) :
    /\ executions' = BagReplace(executions, ex, [ex EXCEPT !.state = "done"])
    /\ project' = trigger_update(Started(project), pricings, plannings,
                                 executions', productions)
    /\ Ran("execution.action_done")
    /\ UNCHANGED <<pricings, plannings, productions, lifecycleRest>>

\* the manufacturing application marks a production order as done; nothing
\* in this add-on runs on that
button_mark_done ==
  \E m \in BagToSet(productions) :
    /\ m.state # "done"
    /\ productions' = BagReplace(productions, m, [m EXCEPT !.state = "done"])
    /\ project' = Started(project)
    /\ Ran("production.state")
    /\ UNCHANGED <<pricings, plannings, executions, lifecycleRest>>

NextCompletion ==
  \/ MaterialProductionPlanningCreate
  \/ action_load_components
  \/ action_create_work_orders
  \/ action_create_orders
  \/ action_done
  \/ WorkOrderExecutionCreate
  \/ execution_action_done
  \/ button_mark_done
  \/ UpdateProjectState

SpecCompletion == InitOrders /\ [][NextCompletion]_vars

(* ----------------------- properties of completion --------------------- *)

\* the production orders the wizard created for the project's plannings
WizardProductions ==
  {m \in BagToSet(productions) :
     \E pl \in BagToSet(plannings) : m.planning = pl.name}

\* every execution and every planning of the project is done, and so is
\* every production order the wizard created for the plannings
AllWorkDone ==
  /\ executions # EmptyBag /\ EveryExecutionDone
  /\ plannings # EmptyBag /\ EveryPlanningDone
  /\ WizardProductions # {}
  /\ \A m \in WizardProductions : m.state = "done"

\* C23: once every execution and every planning of the project is done and
\* every production order the work-order creation wizard created for those
\* plannings is done, update_project_state (auto-update enabled, project not
\* cancelled) leaves the project done
C23_EventuallyDone ==
  (/\ lastOp = "update_project_state"
   /\ project.auto_update_state
   /\ stateBefore # "cancelled"
   /\ AllWorkDone)
    => project.state = "done"

(***************************************************************************)
(* User permissions: user.screen.permission with its function              *)
(* permissions, the assignment wizard and permission.helper.               *)
(***************************************************************************)

\* base.user_admin and the other users; the records of the admin user are
\* never read and are left out
AdminUser == "admin"

PermissionUsers == {"u1"}

\* the screen.definition records by code, and a code no screen has
Screens == {"s1", "s2"}

ScreenCodes == Screens \cup {"s0"}

\* screen.function_ids by code: the second screen has no function defined
function_ids(screen) == IF screen = "s1" THEN {"f1"} ELSE {}

\* the function codes a caller passes: none (the default), a function of the
\* first screen, a code no function has
FunctionCodes == {"", "f1", "f0"}

AccessLevels == {"full", "read_only", "custom", "no_access"}

PermissionTypes == {"full", "execute", "read_only", "no_access"}

PermissionsRequired == {"execute", "read_only", "full"}

\* the wizard's template_type selection
Templates == {"full", "read_only", "custom"}

\* UserScreenPermission.create(): the function permissions of every function
\* of the screen are created along, no_access for the custom level and full
\* for every other level; template records which template the wizard set
\* last with nothing edited since
user_screen_permission_create(screen, has_access, access_level, template) ==
  [has_access |-> has_access,
   access_level |-> access_level,
   function_permission_ids |->
     [f \in function_ids(screen) |->
        IF access_level = "custom" THEN "no_access" ELSE "full"],
   template |-> template]

\* the loop body of action_assign_permissions for one screen
assign_permission(existing_permission, screen, template_type) ==
  IF existing_permission # None
  THEN [existing_permission EXCEPT !.has_access = TRUE,
                                   !.access_level = template_type,
                                   !.template = template_type]
  ELSE user_screen_permission_create(screen, TRUE, template_type, template_type)

\* a check that does not look at has_access
check_user_permission_ignoring_has_access(perms, user, screen_code, function_code, permission_required) ==
  IF user = AdminUser THEN TRUE
  ELSE IF screen_code \notin Screens THEN FALSE
  ELSE
    LET user_permission == perms[<<user, screen_code>>]
    IN IF user_permission = None THEN FALSE
       ELSE IF user_permission.access_level = "no_access" THEN FALSE
       ELSE IF user_permission.access_level = "full" THEN TRUE
       ELSE IF user_permission.access_level = "read_only"
               /\ permission_required \in {"read_only", "execute"} THEN TRUE
       ELSE IF function_code # ""
       THEN IF function_code \notin function_ids(screen_code) THEN FALSE
            ELSE IF function_code \notin DOMAIN user_permission.function_permission_ids
            THEN FALSE
            ELSE LET permission_type ==
                       user_permission.function_permission_ids[function_code]
                 IN IF permission_required = "full" THEN permission_type = "full"
                    ELSE IF permission_required = "execute"
                    THEN permission_type \in {"full", "execute"}
                    ELSE permission_type \in {"full", "execute", "read_only"}
       ELSE FALSE

\* permission.helper check_user_permission for the user of the request
check_user_permission(perms, user, screen_code, function_code, permission_required) ==
  IF user = AdminUser THEN TRUE
  ELSE IF screen_code \notin Screens THEN FALSE
  ELSE
    LET user_permission == perms[<<user, screen_code>>]
    IN IF user_permission = None THEN FALSE
       ELSE IF ~user_permission.has_access
               \/ user_permission.access_level = "no_access" THEN FALSE
       ELSE IF user_permission.access_level = "full" THEN TRUE
       ELSE IF user_permission.access_level = "read_only"
               /\ permission_required \in {"read_only", "execute"} THEN TRUE
       ELSE IF function_code # ""
       THEN IF function_code \notin function_ids(screen_code) THEN FALSE
            ELSE IF function_code \notin DOMAIN user_permission.function_permission_ids
            THEN FALSE
            ELSE LET permission_type ==
                       user_permission.function_permission_ids[function_code]
                 IN IF permission_required = "full" THEN permission_type = "full"
                    ELSE IF permission_required = "execute"
                    THEN permission_type \in {"full", "execute"}
                    ELSE permission_type \in {"full", "execute", "read_only"}
       ELSE FALSE

permissionRest ==
  <<project, pricings, plannings, executions, productions, wizards, moves,
    workorders, processWizard, request, before, estimationVars>>

\* the screens are defined and no permission record exists
InitPermissions ==
  /\ project = [name |-> ProjectName, state |-> "draft",
                auto_update_state |-> TRUE, messages |-> 0]
  /\ pricings = EmptyBag
  /\ plannings = EmptyBag
  /\ executions = EmptyBag
  /\ productions = EmptyBag
  /\ wizards = EmptyBag
  /\ lastOp = "init"
  /\ outcome = "returned"
  /\ stateBefore = "draft"
  /\ NoProcess
  /\ NoEstimation
  /\ user_permissions = [k \in PermissionUsers \X Screens |-> None]

\* the wizard's button, for the user, template and screens picked on it
action_assign_permissions ==
  \E user_id \in PermissionUsers, template_type \in Templates,
     screen_ids \in SUBSET Screens :
    /\ IF screen_ids = {}
       THEN /\ Raised("action_assign_permissions")
            /\ UNCHANGED <<user_permissions, report>>
       ELSE /\ user_permissions' =
                 [k \in DOMAIN user_permissions |->
                    IF k[1] = user_id /\ k[2] \in screen_ids
                    THEN assign_permission(user_permissions[k], k[2], template_type)
                    ELSE user_permissions[k]]
            /\ report' = [type |-> "assign", user_id |-> user_id,
                          template_type |-> template_type,
                          screen_ids |-> screen_ids,
                          updated |-> {screen \in screen_ids :
                                         user_permissions[<<user_id, screen>>] # None}]
            /\ Ran("action_assign_permissions")
    /\ UNCHANGED permissionRest

\* an administrator edits a permission record on its form
UserScreenPermissionWrite ==
  \E k \in DOMAIN user_permissions, has_access \in BOOLEAN,
     access_level \in AccessLevels :
    /\ user_permissions[k] # None
    /\ user_permissions' =
         [user_permissions EXCEPT ![k] = [@ EXCEPT !.has_access = has_access,
                                                   !.access_level = access_level,
                                                   !.template = "none"]]
    /\ Ran("permission.write")
    /\ UNCHANGED <<report, permissionRest>>

\* an administrator changes the permission type of a function permission
UserFunctionPermissionWrite ==
  \E k \in DOMAIN user_permissions :
    /\ user_permissions[k] # None
    /\ \E f \in DOMAIN user_permissions[k].function_permission_ids,
          permission_type \in PermissionTypes :
         user_permissions' =
           [user_permissions EXCEPT ![k] =
              [@ EXCEPT !.function_permission_ids[f] = permission_type,
                        !.template = "none"]]
    /\ Ran("function_permission.write")
    /\ UNCHANGED <<report, permissionRest>>

\* some code asks permission.helper on behalf of the user of the request
CheckUserPermission ==
  \E user \in {AdminUser} \cup PermissionUsers, screen_code \in ScreenCodes,
     function_code \in FunctionCodes, permission_required \in PermissionsRequired :
    /\ report' = [type |-> "check", user |-> user, screen_code |-> screen_code,
                  function_code |-> function_code,
                  permission_required |-> permission_required,
                  result |-> check_user_permission(user_permissions, user,
                               screen_code, function_code, permission_required)]
    /\ Ran("check_user_permission")
    /\ UNCHANGED <<user_permissions, permissionRest>>

NextPermissions ==
  \/ action_assign_permissions
  \/ UserScreenPermissionWrite
  \/ UserFunctionPermissionWrite
  \/ CheckUserPermission

SpecPermissions == InitPermissions /\ [][NextPermissions]_vars

(* ------------------------ properties of the check --------------------- *)

\* check_user_permission has just answered for a user who is not the admin
CheckedNonAdmin ==
  /\ lastOp = "check_user_permission"
  /\ report.user # AdminUser

\* the permission record the check found, or None
CheckedPermission ==
  IF report.screen_code \in Screens
  THEN user_permissions[<<report.user, report.screen_code>>]
  ELSE None

\* C26: check_user_permission never answers True for permission_required
\* 'full' when the user's access level on the screen is read_only
C26_ReadOnlyNeverFull ==
  (/\ CheckedNonAdmin
   /\ report.permission_required = "full"
   /\ CheckedPermission # None
   /\ CheckedPermission.access_level = "read_only")
    => ~report.result

\* C27: after action_assign_permissions assigned the custom template for a
\* screen to a user, and until a permission is edited, check_user_permission
\* denies every function of that screen for that user
C27_CustomDeniesUntilEdited ==
  (/\ CheckedNonAdmin
   /\ CheckedPermission # None
   /\ CheckedPermission.template = "custom")
    => ~report.result

\* C28: for a user other than the admin, check_user_permission answers False
\* when the screen code is unknown, when the user has no permission record
\* for the screen, when has_access is false, or when the access level is
\* no_access
C28_DefaultDeny ==
  (/\ CheckedNonAdmin
   /\ \/ report.screen_code \notin Screens
      \/ CheckedPermission = None
      \/ ~CheckedPermission.has_access
      \/ CheckedPermission.access_level = "no_access")
    => ~report.result

\* a check was denied on has_access alone: the record has full access
\* level and a full function permission
C28_Witness ==
  /\ CheckedNonAdmin
  /\ CheckedPermission # None
  /\ ~CheckedPermission.has_access
  /\ CheckedPermission.access_level = "full"
  /\ report.function_code = "f1"
  /\ CheckedPermission.function_permission_ids["f1"] = "full"
  /\ report.permission_required = "read_only"
  /\ ~report.result

====
